---- MODULE Spec2Model ----
(***************************************************************************)
(* Amanuensis: the scan orchestrator (parser/mod.rs) and the store with    *)
(* its character-merge relation (db/queries.rs), as a state machine.       *)
(*                                                                         *)
(* A character's id and its name are in bijection (characters.name is      *)
(* UNIQUE, the id is the row's key), so a character is identified by its   *)
(* name here.  A date is a positive integer; 0 stands for SQL NULL / the    *)
(* empty date string.                                                      *)
(***************************************************************************)
EXTENDS Integers, Sequences, FiniteSets, TLC

NULL == "NULL"

\* ------------------------------------------------------------------ bounds
MaxSeedOps == 2
MaxFsOps == 2
MaxScans == 2
MaxFaults == 1
MaxRanks == 3
MaxLineNames == 2
MaxKillLines == 2
MaxBytes == 4
MaxKillOps == 4
MaxHandles == 3
MaxDepartEvents == 4

\* --------------------------------------------------------------- universes
Chars == {"A", "B", "C"}
\* The characters the seeding calls below write rows for; the third one is
\* merged and unmerged with the rows its creation gave it.
SeedChars == {"A", "B"}
Creatures == {"Rat"}
TrainerNames == {"Histia"}
PetNames == {"Cat"}
Dates == {1, 2}

EmptyFn == [x \in {} |-> TRUE]

VARIABLES db, last, seedOps, fs, fsOps, faults, lastScan, app

vars == <<db, last, seedOps, fs, fsOps, faults, lastScan, app>>

\* ------------------------------------------------------------------- store
\* One snapshot of the tables of db/schema.rs (the columns the operations
\* below read or write).
EmptyStore ==
    [chars |-> EmptyFn, kills |-> EmptyFn, trainers |-> EmptyFn,
     lastys |-> EmptyFn, pets |-> {}, log_files |-> EmptyFn, log_lines |-> EmptyFn]

\* A fresh characters row: the column defaults.
NewCharacter ==
    [profession |-> "Unknown", logins |-> 0, deaths |-> 0, departs |-> 0,
     coin_level |-> 0, start_date |-> 0, merged_into |-> NULL]

NewKill ==
    [killed_count |-> 0, slaughtered_count |-> 0, assisted_kill_count |-> 0,
     killed_by_count |-> 0, creature_value |-> 0]

NewTrainer == [ranks |-> 0, modified_ranks |-> 0, apply_learning_ranks |-> 0]

NewLasty == [message_count |-> 0, finished |-> 0]

\* Sum of f over the finite set S (SQL SUM, Iterator::sum).
RECURSIVE SumFn(_, _)
SumFn(f, S) ==
    IF S = {} THEN 0
    ELSE LET x == CHOOSE y \in S : TRUE IN f[x] + SumFn(f, S \ {x})

get_or_create_character(s, name) ==
    IF name \in DOMAIN s.chars THEN s
    ELSE [s EXCEPT !.chars = @ @@ (name :> NewCharacter)]

\* UPDATE characters SET f = f + amount WHERE id = ?: no row, no change.
increment_character_field(s, id, field, amount) ==
    IF id \in DOMAIN s.chars
    THEN [s EXCEPT !.chars[id][field] = @ + amount]
    ELSE s

\* INSERT ... ON CONFLICT(character_id, creature_name) DO UPDATE SET f = f + 1
upsert_kill(s, id, creature, field, value) ==
    LET k == <<id, creature>> IN
    IF k \in DOMAIN s.kills
    THEN [s EXCEPT !.kills[k][field] = @ + 1]
    ELSE [s EXCEPT !.kills =
            @ @@ (k :> [[NewKill EXCEPT ![field] = 1] EXCEPT !.creature_value = value])]

upsert_trainer_rank(s, id, trainer) ==
    LET k == <<id, trainer>> IN
    IF k \in DOMAIN s.trainers
    THEN [s EXCEPT !.trainers[k].ranks = @ + 1]
    ELSE [s EXCEPT !.trainers = @ @@ (k :> [NewTrainer EXCEPT !.ranks = 1])]

\* INSERT OR IGNORE INTO pets
upsert_pet(s, id, pet) == [s EXCEPT !.pets = @ \cup {<<id, pet>>}]

upsert_lasty(s, id, creature) ==
    LET k == <<id, creature>> IN
    IF k \in DOMAIN s.lastys
    THEN [s EXCEPT !.lastys[k].message_count = @ + 1]
    ELSE [s EXCEPT !.lastys = @ @@ (k :> [NewLasty EXCEPT !.message_count = 1])]

\* UPDATE ... WHERE id = ? AND (start_date IS NULL OR start_date > ?)
update_start_date(s, id, date) ==
    IF id \in DOMAIN s.chars
       /\ (s.chars[id].start_date = 0 \/ s.chars[id].start_date > date)
    THEN [s EXCEPT !.chars[id].start_date = date]
    ELSE s

update_coin_level(s, id, level) ==
    IF id \in DOMAIN s.chars THEN [s EXCEPT !.chars[id].coin_level = level] ELSE s

\* ------------------------------------------------------------ transactions
\* The connection: the committed database, the connection's own view of it
\* (the committed state plus the open transaction's writes), whether a
\* transaction is open, and the PRAGMA settings.
BulkPragmas ==
    [journal_mode |-> "WAL", synchronous |-> "NORMAL", cache_size |-> "-64000",
     temp_store |-> "MEMORY", mmap_size |-> "268435456"]

\* A connection as Connection::open leaves it.
DefaultPragmas ==
    [journal_mode |-> "DELETE", synchronous |-> "FULL", cache_size |-> "-2000",
     temp_store |-> "DEFAULT", mmap_size |-> "0"]

InitDb ==
    [committed |-> EmptyStore, working |-> EmptyStore, inTxn |-> FALSE,
     pragmas |-> DefaultPragmas]

\* A statement outside a transaction commits at once (autocommit).
Write(d, s) ==
    IF d.inTxn THEN [d EXCEPT !.working = s]
    ELSE [d EXCEPT !.working = s, !.committed = s]

\* BEGIN fails inside an open transaction.
CanBegin(d) == ~d.inTxn

begin_transaction(d) == [d EXCEPT !.inTxn = TRUE]

commit_transaction(d) == [d EXCEPT !.committed = d.working, !.inTxn = FALSE]

\* A ROLLBACK that keeps the transaction's writes.
rollback_transaction_keeps(d) == [d EXCEPT !.committed = d.working, !.inTxn = FALSE]

\* ROLLBACK outside a transaction is an error the callers ignore.
rollback_transaction(d) ==
    IF d.inTxn THEN [d EXCEPT !.working = d.committed, !.inTxn = FALSE] ELSE d

\* --------------------------------------------------------- merge relation
merged_source_ids(s, target) ==
    {c \in DOMAIN s.chars : s.chars[c].merged_into = target}

char_ids_for_merged(s, id) == {id} \cup merged_source_ids(s, id)

\* SELECT COALESCE(SUM(ranks + modified_ranks + apply_learning_ranks), 0)
\*   FROM trainers WHERE character_id IN (ids)
RankSum(s, ids) ==
    LET keys == {k \in DOMAIN s.trainers : k[1] \in ids}
        eff == [k \in keys |->
                  s.trainers[k].ranks + s.trainers[k].modified_ranks
                    + s.trainers[k].apply_learning_ranks]
    IN SumFn(eff, keys)

\* A recalculation that reads the target's own trainer rows only.
recalculate_merged_stats_own(s, target) ==
    update_coin_level(s, target, RankSum(s, {target}))

recalculate_merged_stats(s, target) ==
    update_coin_level(s, target, RankSum(s, char_ids_for_merged(s, target)))

\* The loop over source_ids: each source is validated and then written at
\* once, before the next one is looked at.
RECURSIVE MergeSources(_, _, _)
MergeSources(s, sources, target) ==
    IF sources = <<>> THEN [ok |-> TRUE, err |-> "", store |-> s]
    ELSE LET src == Head(sources) IN
         IF src = target
         THEN [ok |-> FALSE, err |-> "self", store |-> s]
         ELSE IF src \notin DOMAIN s.chars
         THEN [ok |-> FALSE, err |-> "source_not_found", store |-> s]
         ELSE IF s.chars[src].merged_into # NULL
         THEN [ok |-> FALSE, err |-> "source_merged", store |-> s]
         ELSE MergeSources([s EXCEPT !.chars[src].merged_into = target],
                           Tail(sources), target)

\* A merge that hands the sources' kill rows over to the target's totals and
\* deletes them.
merge_characters_inner_drops_kills(s, sources, target) ==
    LET r == IF target \notin DOMAIN s.chars
             THEN [ok |-> FALSE, err |-> "target_not_found", store |-> s]
             ELSE IF s.chars[target].merged_into # NULL
             THEN [ok |-> FALSE, err |-> "target_merged", store |-> s]
             ELSE MergeSources(s, sources, target)
        srcs == {sources[i] : i \in 1..Len(sources)}
        kept == {k \in DOMAIN r.store.kills : k[1] \notin srcs}
    IN IF r.ok
       THEN [r EXCEPT !.store =
               recalculate_merged_stats(
                 [r.store EXCEPT !.kills = [k \in kept |-> r.store.kills[k]]],
                 target)]
       ELSE r

merge_characters_inner(s, sources, target) ==
    IF target \notin DOMAIN s.chars
    THEN [ok |-> FALSE, err |-> "target_not_found", store |-> s]
    ELSE IF s.chars[target].merged_into # NULL
    THEN [ok |-> FALSE, err |-> "target_merged", store |-> s]
    ELSE LET r == MergeSources(s, sources, target) IN
         IF r.ok
         THEN [r EXCEPT !.store = recalculate_merged_stats(r.store, target)]
         ELSE r

\* An unmerge that also resets the restored character's login counter.
unmerge_character_inner_resets(s, source) ==
    IF source \notin DOMAIN s.chars
    THEN [ok |-> FALSE, err |-> "not_found", store |-> s]
    ELSE IF s.chars[source].merged_into = NULL
    THEN [ok |-> FALSE, err |-> "not_merged", store |-> s]
    ELSE LET former == s.chars[source].merged_into
             s1 == [s EXCEPT !.chars[source].merged_into = NULL,
                             !.chars[source].logins = 0]
         IN [ok |-> TRUE, err |-> "", store |-> recalculate_merged_stats(s1, former)]

unmerge_character_inner(s, source) ==
    IF source \notin DOMAIN s.chars
    THEN [ok |-> FALSE, err |-> "not_found", store |-> s]
    ELSE IF s.chars[source].merged_into = NULL
    THEN [ok |-> FALSE, err |-> "not_merged", store |-> s]
    ELSE LET former == s.chars[source].merged_into
             s1 == [s EXCEPT !.chars[source].merged_into = NULL]
         IN [ok |-> TRUE, err |-> "", store |-> recalculate_merged_stats(s1, former)]

\* ------------------------------------------------------ merge-aware reads
get_character_by_id(s, id) == s.chars[id]

\* The earlier of two dates, a NULL one (0) never winning over a date.
EarlierDate(a, b) == IF b # 0 /\ (a = 0 \/ a > b) THEN b ELSE a

\* The loop over source_ids of get_character_merged.
RECURSIVE AddSources(_, _, _)
AddSources(s, merged, sids) ==
    IF sids = {} THEN merged
    ELSE LET sid == CHOOSE x \in sids : TRUE
             source == get_character_by_id(s, sid)
         IN AddSources(s,
                       [merged EXCEPT !.logins = @ + source.logins,
                                      !.departs = @ + source.departs,
                                      !.deaths = @ + source.deaths,
                                      !.start_date = EarlierDate(@, source.start_date)],
                       sids \ {sid})

\* A read that returns the character's own row.
get_character_merged_own(s, char_id) == get_character_by_id(s, char_id)

get_character_merged(s, char_id) ==
    LET source_ids == merged_source_ids(s, char_id) IN
    IF source_ids = {} THEN get_character_by_id(s, char_id)
    ELSE [AddSources(s, get_character_by_id(s, char_id), source_ids)
            EXCEPT !.coin_level = RankSum(s, char_ids_for_merged(s, char_id))]

\* SELECT * FROM kills WHERE character_id = ?, keyed by creature_name.
get_kills(s, char_id) ==
    [cr \in {k[2] : k \in {k \in DOMAIN s.kills : k[1] = char_id}} |->
        s.kills[<<char_id, cr>>]]

MaxOf(S) == CHOOSE m \in S : \A x \in S : x <= m

\* SELECT ..., SUM(...), MAX(creature_value) ... WHERE character_id IN (ids)
\* GROUP BY creature_name
get_kills_merged(s, char_id) ==
    LET all_ids == char_ids_for_merged(s, char_id) IN
    IF Cardinality(all_ids) = 1 THEN get_kills(s, char_id)
    ELSE LET rows == {k \in DOMAIN s.kills : k[1] \in all_ids} IN
         [cr \in {k[2] : k \in rows} |->
            LET grp == {k \in rows : k[2] = cr}
                col(f) == SumFn([k \in grp |-> s.kills[k][f]], grp)
            IN [killed_count |-> col("killed_count"),
                slaughtered_count |-> col("slaughtered_count"),
                assisted_kill_count |-> col("assisted_kill_count"),
                killed_by_count |-> col("killed_by_count"),
                creature_value |-> MaxOf({s.kills[k].creature_value : k \in grp})]]

\* SELECT ... FROM pets WHERE character_id = ?: the pet names.
get_pets(s, char_id) == {p[2] : p \in {p \in s.pets : p[1] = char_id}}

\* SELECT ... FROM pets WHERE character_id IN (ids) GROUP BY pet_name
get_pets_merged(s, char_id) ==
    LET all_ids == char_ids_for_merged(s, char_id) IN
    IF Cardinality(all_ids) = 1 THEN get_pets(s, char_id)
    ELSE {p[2] : p \in {p \in s.pets : p[1] \in all_ids}}

\* begin; inner; commit on Ok, rollback on Err.  fault names the store
\* statement that fails: "begin", "commit" (the transaction stays open),
\* "commit_rb" (the engine has rolled the transaction back), or "none".
InTransaction(d, r, fault) ==
    LET d1 == Write(d, r.store) IN
    IF ~r.ok THEN [ok |-> FALSE, err |-> r.err, db |-> rollback_transaction(d1)]
    ELSE IF fault = "commit" THEN [ok |-> FALSE, err |-> "store", db |-> d1]
    ELSE IF fault = "commit_rb"
    THEN [ok |-> FALSE, err |-> "store", db |-> rollback_transaction(d1)]
    ELSE [ok |-> TRUE, err |-> "", db |-> commit_transaction(d1)]

merge_characters(d, sources, target, fault) ==
    IF ~CanBegin(d) \/ fault = "begin"
    THEN [ok |-> FALSE, err |-> "store", db |-> d]
    ELSE LET d1 == begin_transaction(d) IN
         InTransaction(d1, merge_characters_inner(d1.working, sources, target), fault)

unmerge_character(d, source, fault) ==
    IF ~CanBegin(d) \/ fault = "begin"
    THEN [ok |-> FALSE, err |-> "store", db |-> d]
    ELSE LET d1 == begin_transaction(d) IN
         InTransaction(d1, unmerge_character_inner(d1.working, source), fault)

\* ------------------------------------------------------------ file system
\* The scanned folder holds the character directories A and B, A with the
\* log files 1 and 2 and B with the log file 1.  A path is <<directory,
\* file>>; SortedPaths is the order entries.sort_by_key and log_files.sort()
\* give.
Dirs == {"A", "B"}
Paths == {<<"A", 1>>, <<"A", 2>>, <<"B", 1>>}
SortedPaths == << <<"A", 1>>, <<"A", 2>>, <<"B", 1>> >>

\* What a path holds: no file, a file that cannot be read, or a file with one
\* of the contents below (one event per line, with the line's date).
\*   x: a welcome line naming "a", then a solo kill;
\*   y: a trainer rank, no welcome line;
\*   z: a welcome line naming "a" and a welcome-back line naming "a".
ContentIds == {"x", "y", "z"}
FileContent ==
    [x |-> << [type |-> "Login", name |-> "a", date |-> 1],
              [type |-> "SoloKill", creature |-> "Rat", date |-> 1] >>,
     y |-> << [type |-> "TrainerRank", trainer |-> "Histia", date |-> 2] >>,
     z |-> << [type |-> "Login", name |-> "a", date |-> 1],
              [type |-> "Reconnect", name |-> "a", date |-> 2] >>]

\* The lines that WELCOME_LOGIN or WELCOME_BACK match.
Welcomes == {"Login", "Reconnect"}

EmptyFs == [p \in Paths |-> "absent"]

\* The names of the model in title case.
titlecase_name(name) == CASE name = "a" -> "A" [] OTHER -> name

\* The name of the first welcome line, in title case; NULL if there is none.
extract_character_name(bytes) ==
    LET lines == FileContent[bytes]
        welcomes == {i \in 1..Len(lines) : lines[i].type \in Welcomes}
    IN IF welcomes = {} THEN NULL
       ELSE titlecase_name(lines[CHOOSE i \in welcomes : \A j \in welcomes : i <= j].name)

\* DefaultHasher over the bytes, as 16 hex digits: equal contents have equal
\* hashes, and the two contents of the model do not collide.
hash_bytes(bytes) ==
    CASE bytes = "x" -> "51a0c3e27b9d4f08" [] bytes = "y" -> "e4d7720b15c6a93f"
      [] bytes = "z" -> "0b6f98d1c4a2e375"

\* creature_db.get_value(creature).unwrap_or(0)
creature_value(creature) == CASE creature = "Rat" -> 2 [] OTHER -> 0

Readable(f, p) == f[p] \in ContentIds

\* find_log_files(dir), sorted.
find_log_files(f, dir) ==
    SelectSeq(SortedPaths, LAMBDA p : p[1] = dir /\ f[p] # "absent")

\* ------------------------------------------------------------------ ledger
is_log_scanned(s, file_path) == file_path \in DOMAIN s.log_files

\* A ledger that is never asked by content.
is_hash_scanned_never(s, content_hash) == FALSE

is_hash_scanned(s, content_hash) ==
    \E p \in DOMAIN s.log_files : s.log_files[p].content_hash = content_hash

\* INSERT OR IGNORE: file_path is UNIQUE, an existing entry stays as it is.
mark_log_scanned(s, char_id, file_path, content_hash) ==
    IF file_path \in DOMAIN s.log_files THEN s
    ELSE [s EXCEPT !.log_files =
            @ @@ (file_path :> [character_id |-> char_id,
                                content_hash |-> content_hash])]

\* One batch of a file's lines in the search index.
insert_log_lines(s, char_id, file_path) ==
    LET k == <<char_id, file_path>> IN
    IF k \in DOMAIN s.log_lines
    THEN [s EXCEPT !.log_lines[k] = @ + 1]
    ELSE [s EXCEPT !.log_lines = @ @@ (k :> 1)]

\* -------------------------------------------------------------- scan_bytes
\* The store statements scan_bytes issues for a file, in order: those of its
\* lines' events, the login, the start-date fallback, the line index.
EventStatements(e) ==
    CASE e.type \in Welcomes ->
           IF e.date # 0 THEN << [op |-> "update_start_date", arg |-> e.date] >>
           ELSE << >>
      [] e.type = "SoloKill" ->
           << [op |-> "upsert_kill", arg |-> e.creature] >>
      [] e.type = "TrainerRank" ->
           << [op |-> "upsert_trainer_rank", arg |-> e.trainer] >>

RECURSIVE LineStatements(_)
LineStatements(lines) ==
    IF lines = << >> THEN << >>
    ELSE EventStatements(Head(lines)) \o LineStatements(Tail(lines))

\* A login counted for each welcome line of the file.
LoginStatement_per_line(lines) ==
    << [op |-> "increment_logins",
        arg |-> Cardinality({i \in 1..Len(lines) : lines[i].type \in Welcomes})] >>

\* Every scanned file counts as exactly 1 login.
LoginStatement(lines) == << [op |-> "increment_logins", arg |-> 1] >>

Statements(bytes, index_lines) ==
    LET lines == FileContent[bytes]
        found_login == \E i \in 1..Len(lines) : lines[i].type \in Welcomes
        dated == {i \in 1..Len(lines) : lines[i].date # 0}
        first_date == IF dated = {} THEN 0
                      ELSE lines[CHOOSE i \in dated : \A j \in dated : i <= j].date
    IN LineStatements(lines)
       \o LoginStatement(lines)
       \o (IF ~found_login /\ first_date # 0
           THEN << [op |-> "update_start_date", arg |-> first_date] >> ELSE << >>)
       \o (IF index_lines /\ lines # << >>
           THEN << [op |-> "insert_log_lines", arg |-> 0] >> ELSE << >>)

Execute(s, char_id, file_path, st) ==
    CASE st.op = "update_start_date" -> update_start_date(s, char_id, st.arg)
      [] st.op = "upsert_kill" ->
           upsert_kill(s, char_id, st.arg, "killed_count", creature_value(st.arg))
      [] st.op = "upsert_trainer_rank" -> upsert_trainer_rank(s, char_id, st.arg)
      [] st.op = "increment_logins" ->
           increment_character_field(s, char_id, "logins", st.arg)
      [] st.op = "insert_log_lines" -> insert_log_lines(s, char_id, file_path)

RECURSIVE ExecuteAll(_, _, _, _, _, _)
ExecuteAll(s, char_id, file_path, sts, i, failAt) ==
    IF i > Len(sts) THEN [ok |-> TRUE, store |-> s]
    ELSE IF i = failAt THEN [ok |-> FALSE, store |-> s]
    ELSE ExecuteAll(Execute(s, char_id, file_path, sts[i]), char_id, file_path,
                    sts, i + 1, failAt)

\* failAt is the statement that returns a store error (0: none does); the
\* statements before it have been executed.
scan_bytes(s, bytes, char_id, file_path, index_lines, failAt) ==
    LET r == ExecuteAll(s, char_id, file_path, Statements(bytes, index_lines),
                        1, failAt)
    IN [ok |-> r.ok, store |-> r.store,
        lines_parsed |-> Len(FileContent[bytes]),
        events_found |-> Len(FileContent[bytes])]

\* ------------------------------------------------------------------- scans
\* The one store error, bad argument or panic of the progress callback of a
\* scan call: where it happens (at), and for one inside the file loop the
\* file (file) and, in scan_bytes, the statement (k).
NoFault == [at |-> "none", file |-> << >>, k |-> 0]

\* What becomes of the connection when the callback panics is up to the
\* caller: the panic is caught and the parser is used on (0), or the unwinding
\* drops the parser with its connection, and the database is opened anew (1).
PanicOutcomes == {0, 1}

StatementIndexes ==
    1..Len(Statements("x", TRUE))

Faults ==
    {NoFault}
    \cup {[at |-> a, file |-> << >>, k |-> 0] :
            a \in {"not_a_directory", "begin", "commit", "commit_rb"}}
    \cup {[at |-> a, file |-> << >>, k |-> k] :
            a \in {"set_scan_pragmas"}, k \in 1..5}
    \cup {[at |-> a, file |-> << >>, k |-> k] :
            a \in {"reset_pragmas"}, k \in 1..2}
    \cup {[at |-> a, file |-> p, k |-> 0] :
            a \in {"is_log_scanned", "is_hash_scanned",
                   "get_or_create_character", "mark_log_scanned"},
            p \in Paths}
    \cup {[at |-> "progress", file |-> p, k |-> k] :
            p \in Paths, k \in PanicOutcomes}
    \cup {[at |-> "scan_bytes", file |-> p, k |-> k] :
            p \in Paths, k \in StatementIndexes}

ZeroResult ==
    [characters |-> 0, files_scanned |-> 0, skipped |-> 0, lines_parsed |-> 0,
     events_found |-> 0, errors |-> 0]

\* The running scan: the store as the open transaction sees it, the
\* ScanResult, what became of each file and the character it was scanned
\* for, the calls of the progress callback so far and the total they are
\* given, the characters seen (explicit files), the error that aborts the
\* scan, and the fault that has happened.
StartScan(s) ==
    [store |-> s, result |-> ZeroResult, outcome |-> [p \in Paths |-> "none"],
     owner |-> [p \in Paths |-> NULL], calls |-> << >>, total |-> 0,
     seen |-> {}, err |-> "", fired |-> NoFault]

Abort(acc, fault) == [acc EXCEPT !.err = "store", !.fired = fault]

Hits(fault, at, p) == fault.at = at /\ fault.file = p

\* A loop body that writes the ledger entry before it applies the events.
ScanReadFile_marks_first(acc, p, bytes, char_id, force, index_lines, fault) ==
    LET content_hash == hash_bytes(bytes)
        failAt == IF Hits(fault, "scan_bytes", p) THEN fault.k ELSE 0
        marked == mark_log_scanned(acc.store, char_id, p, content_hash)
        r == scan_bytes(marked, bytes, char_id, p, index_lines, failAt)
    IN IF r.ok
       THEN [acc EXCEPT !.store = r.store, !.owner[p] = char_id,
                        !.result.files_scanned = @ + 1,
                        !.result.lines_parsed = @ + r.lines_parsed,
                        !.result.events_found = @ + r.events_found,
                        !.outcome[p] = "scanned"]
       ELSE [acc EXCEPT !.store = r.store, !.result.errors = @ + 1,
                        !.owner[p] = char_id,
                        !.outcome[p] = "store_error", !.fired = fault]

\* The body of the loop over a character's log files, from the read of the
\* bytes on, once the character is known.
ScanReadFile(acc, p, bytes, char_id, force, index_lines, fault) ==
    LET content_hash == hash_bytes(bytes)
        failAt == IF Hits(fault, "scan_bytes", p) THEN fault.k ELSE 0
        r == scan_bytes(acc.store, bytes, char_id, p, index_lines, failAt)
    IN IF r.ok
       THEN LET a1 == [acc EXCEPT !.store = r.store,
                                  !.owner[p] = char_id,
                                  !.result.files_scanned = @ + 1,
                                  !.result.lines_parsed = @ + r.lines_parsed,
                                  !.result.events_found = @ + r.events_found,
                                  !.outcome[p] = "scanned"]
            IN IF Hits(fault, "mark_log_scanned", p) THEN Abort(a1, fault)
               ELSE [a1 EXCEPT !.store =
                        mark_log_scanned(r.store, char_id, p, content_hash)]
       ELSE [acc EXCEPT !.store = r.store, !.result.errors = @ + 1,
                        !.owner[p] = char_id,
                        !.outcome[p] = "store_error", !.fired = fault]

\* A read error that is passed over without being counted.
ReadError_uncounted(acc, p) == [acc EXCEPT !.outcome[p] = "unreadable"]

\* A read error that ends the scan.
ReadError_aborts(acc, p) == [acc EXCEPT !.err = "io", !.outcome[p] = "unreadable"]

\* std::fs::read fails: the file is counted and the loop goes on.
ReadError(acc, p) ==
    [acc EXCEPT !.result.errors = @ + 1, !.outcome[p] = "unreadable"]

\* progress(current, total, filename): the call is recorded with whether the
\* file had been dealt with when it was made.
Progress(acc, p) ==
    [acc EXCEPT !.calls = Append(@, [current |-> Len(acc.calls) + 1,
                                     total |-> acc.total,
                                     filename |-> p[2],
                                     path |-> p,
                                     done |-> acc.outcome[p] # "none"])]

\* The checks that come before: the ledger by path, the read, the ledger by
\* content hash.  known tells whether the character is known already (a
\* folder scan) or is looked up from the file (explicit files).
ScanCheckFile(acc, f, p, known, force, index_lines, fault) ==
    IF ~force /\ Hits(fault, "is_log_scanned", p) THEN Abort(acc, fault)
    ELSE IF ~force /\ is_log_scanned(acc.store, p)
    THEN [acc EXCEPT !.result.skipped = @ + 1, !.outcome[p] = "skipped_path"]
    ELSE IF ~Readable(f, p) THEN ReadError(acc, p)
    ELSE IF ~force /\ Hits(fault, "is_hash_scanned", p) THEN Abort(acc, fault)
    ELSE IF ~force /\ is_hash_scanned(acc.store, hash_bytes(f[p]))
    THEN [acc EXCEPT !.result.skipped = @ + 1, !.outcome[p] = "skipped_hash"]
    ELSE IF known # NULL
    THEN ScanReadFile(acc, p, f[p], known, force, index_lines, fault)
    ELSE LET welcome == extract_character_name(f[p])
             char_name == IF welcome # NULL THEN welcome ELSE titlecase_name(p[1])
         IN IF Hits(fault, "get_or_create_character", p)
               /\ char_name \notin DOMAIN acc.store.chars
            THEN Abort(acc, fault)
            ELSE ScanReadFile(
                   [acc EXCEPT !.store = get_or_create_character(@, char_name),
                               !.seen = @ \cup {char_name},
                               !.result.characters =
                                   IF char_name \in acc.seen THEN @ ELSE @ + 1],
                   p, f[p], char_name, force, index_lines, fault)

\* One turn of the loop over the files: the progress callback is called
\* first, and a panic of it unwinds out of the scan call.
ScanFile(acc, f, p, known, force, index_lines, fault) ==
    LET a1 == Progress(acc, p) IN
    IF Hits(fault, "progress", p) THEN [a1 EXCEPT !.err = "panic", !.fired = fault]
    ELSE ScanCheckFile(a1, f, p, known, force, index_lines, fault)

RECURSIVE ScanFiles(_, _, _, _, _, _, _)
ScanFiles(acc, f, files, known, force, index_lines, fault) ==
    IF files = << >> \/ acc.err # "" THEN acc
    ELSE ScanFiles(ScanFile(acc, f, Head(files), known, force, index_lines, fault),
                   f, Tail(files), known, force, index_lines, fault)

\* A character directory of the folder: its name from the first readable
\* log file that has a welcome line, else the directory's name.
CharacterOfDir(f, dir) ==
    LET log_files == find_log_files(f, dir)
        named == {i \in 1..Len(log_files) :
                    /\ Readable(f, log_files[i])
                    /\ extract_character_name(f[log_files[i]]) # NULL}
    IN IF named = {} THEN dir
       ELSE extract_character_name(
              f[log_files[CHOOSE i \in named : \A j \in named : i <= j]])

RECURSIVE ScanDirs(_, _, _, _, _, _)
ScanDirs(acc, f, dirs, force, index_lines, fault) ==
    IF dirs = << >> \/ acc.err # "" THEN acc
    ELSE LET dir == Head(dirs)
             log_files == find_log_files(f, dir)
             char_name == CharacterOfDir(f, dir)
         IN IF log_files = << >>
            THEN ScanDirs(acc, f, Tail(dirs), force, index_lines, fault)
            ELSE IF Hits(fault, "get_or_create_character", log_files[1])
                    /\ char_name \notin DOMAIN acc.store.chars
            THEN Abort(acc, fault)
            ELSE LET a1 == [acc EXCEPT !.store = get_or_create_character(@, char_name)]
                     a2 == ScanFiles(a1, f, log_files, char_name, force,
                                     index_lines, fault)
                 IN ScanDirs(IF a2.err = ""
                             THEN [a2 EXCEPT !.result.characters = @ + 1] ELSE a2,
                             f, Tail(dirs), force, index_lines, fault)

\* total_files: the log files of all character directories.
scan_folder_inner(acc, f, force, index_lines, fault) ==
    ScanDirs([acc EXCEPT !.total = Len(find_log_files(f, "A"))
                                     + Len(find_log_files(f, "B"))],
             f, <<"A", "B">>, force, index_lines, fault)

scan_files_with_progress_inner(acc, f, files, force, index_lines, fault) ==
    ScanFiles([acc EXCEPT !.total = Len(files)], f, files, NULL, force,
              index_lines, fault)

\* The folder is a log root if one of its directories has a log file.
discover_log_folders(f) ==
    IF \E p \in Paths : f[p] # "absent" THEN <<"root">> ELSE << >>

\* execute_batch stops at the statement that fails: the ones before it have
\* taken effect.
PragmaOrder ==
    <<"journal_mode", "synchronous", "cache_size", "temp_store", "mmap_size">>

RECURSIVE SetPragmas(_, _, _, _)
SetPragmas(pragmas, names, values, n) ==
    IF n = 0 THEN pragmas
    ELSE SetPragmas([pragmas EXCEPT ![names[1]] = values[names[1]]],
                    Tail(names), values, n - 1)

set_scan_pragmas(d, fault) ==
    LET n == IF fault.at = "set_scan_pragmas" THEN fault.k - 1 ELSE 5 IN
    [ok |-> fault.at # "set_scan_pragmas",
     db |-> [d EXCEPT !.pragmas = SetPragmas(@, PragmaOrder, BulkPragmas, n)]]

reset_pragmas(d, fault) ==
    LET n == IF fault.at = "reset_pragmas" THEN fault.k - 1 ELSE 2 IN
    [ok |-> fault.at # "reset_pragmas",
     db |-> [d EXCEPT !.pragmas =
                SetPragmas(@, <<"synchronous", "cache_size">>, DefaultPragmas, n)]]

Failed(d, fault) ==
    [ok |-> FALSE, db |-> d, result |-> NULL,
     outcome |-> [p \in Paths |-> "none"], owner |-> [p \in Paths |-> NULL],
     calls |-> << >>, fired |-> fault]

\* What the four scan entry points share.  First the pragmas and BEGIN, a
\* failure of either returning at once (?).
ScanBegin(d, fault) ==
    LET p == set_scan_pragmas(d, fault) IN
    IF ~p.ok THEN Failed(p.db, fault)
    ELSE IF ~CanBegin(p.db) \/ fault.at = "begin"
    THEN Failed(p.db, [fault EXCEPT !.at = "begin"])
    ELSE [Failed(begin_transaction(p.db), NoFault) EXCEPT !.ok = TRUE]

\* The connection is closed with its transaction open, which SQLite discards,
\* and the database file is opened again: the journal mode is kept in the
\* file, the other settings are those of a new connection.
Reopened(d) ==
    [committed |-> d.committed, working |-> d.committed, inTxn |-> FALSE,
     pragmas |-> [DefaultPragmas EXCEPT !.journal_mode = d.pragmas.journal_mode]]

\* What a call that does not return Ok leaves of the scan it has run.
FailedAfter(d, acc, fault) ==
    [Failed(d, fault) EXCEPT !.outcome = acc.outcome, !.owner = acc.owner,
                             !.calls = acc.calls]

\* Then, the inner scan done: COMMIT and the reset on Ok, ROLLBACK and the
\* reset (their own errors ignored) on Err.  A panic of the callback passes
\* through the entry point: nothing of the match is run.
ScanEnd(d1, acc, fault) ==
    LET d2 == Write(d1, acc.store) IN
    IF acc.err = "panic"
    THEN FailedAfter(IF acc.fired.k = 1 THEN Reopened(d2) ELSE d2, acc, acc.fired)
    ELSE IF acc.err # ""
    THEN FailedAfter(reset_pragmas(rollback_transaction(d2), NoFault).db, acc,
                     acc.fired)
    ELSE IF fault.at = "commit"
    THEN FailedAfter(d2, acc, fault)
    ELSE IF fault.at = "commit_rb"
    THEN FailedAfter(rollback_transaction(d2), acc, fault)
    ELSE LET r == reset_pragmas(commit_transaction(d2), fault) IN
         IF ~r.ok THEN FailedAfter(r.db, acc, fault)
         ELSE [ok |-> TRUE, db |-> r.db, result |-> acc.result,
               outcome |-> acc.outcome, owner |-> acc.owner,
               calls |-> acc.calls, fired |-> acc.fired]

scan_folder_with_progress(d, f, force, index_lines, fault) ==
    IF fault.at = "not_a_directory" THEN Failed(d, fault)
    ELSE LET b == ScanBegin(d, fault) IN
         IF ~b.ok THEN b
         ELSE ScanEnd(b.db,
                      scan_folder_inner(StartScan(b.db.working), f, force,
                                        index_lines, fault),
                      fault)

\* scan_folder has the loop of scan_folder_with_progress without the
\* callback, and indexes the lines it reads.
scan_folder(d, f, force, fault) ==
    [scan_folder_with_progress(d, f, force, TRUE, fault) EXCEPT !.calls = << >>]

scan_files_with_progress(d, f, files, force, index_lines, fault) ==
    LET b == ScanBegin(d, fault) IN
    IF ~b.ok THEN b
    ELSE ScanEnd(b.db,
                 scan_files_with_progress_inner(StartScan(b.db.working), f, files,
                                                force, index_lines, fault),
                 fault)

scan_recursive_with_progress(d, f, force, index_lines, fault) ==
    IF discover_log_folders(f) = << >>
    THEN scan_folder_with_progress(d, f, force, index_lines, fault)
    ELSE LET b == ScanBegin(d, fault) IN
         IF ~b.ok THEN b
         ELSE ScanEnd(b.db,
                      scan_folder_inner(StartScan(b.db.working), f, force,
                                        index_lines, fault),
                      fault)

\* ------------------------------------------------------------------ state
NoLast ==
    [op |-> "none", ok |-> TRUE, err |-> "", sources |-> <<>>, target |-> NULL,
     pre |-> <<>>]

\* What is kept of the last scan call: its number, entry point and
\* arguments, the file system it ran on, and what it returned.
NoScan ==
    [n |-> 0, kind |-> "none", force |-> FALSE, ok |-> TRUE, result |-> NULL,
     outcome |-> [p \in Paths |-> "none"], owner |-> [p \in Paths |-> NULL],
     calls |-> << >>, fired |-> "none", fsSame |-> TRUE]

\* Of a scan call that is no longer the last call on the store only the
\* number is kept.
Forgotten == [NoScan EXCEPT !.n = lastScan.n, !.fsSame = lastScan.fsSame]

\* Option::None of state.db; the Database values are 1, 2, ...
None == 0

\* AppState::new: state.db holds no Database, state.db_path no path; no
\* blocking task runs and no Database value has been made yet.
AppState_new == [db |-> None, db_path |-> NULL, tasks |-> {}, next |-> 1]

Init ==
    /\ db = InitDb
    /\ last = NoLast
    /\ seedOps = 0
    /\ fs = EmptyFs
    /\ fsOps = 0
    /\ faults = 0
    /\ lastScan = NoScan
    /\ app = AppState_new

\* The store's own API, called outside any scan (the tests, the importer and
\* the front ends call it so); each statement commits by itself.  The calls
\* are made on a connection that has no transaction left open.
\* Rows get their ids in the order of their creation (AUTOINCREMENT).
NextId(s) ==
    IF "A" \notin DOMAIN s.chars THEN {"A"}
    ELSE IF "B" \notin DOMAIN s.chars THEN {"B"}
    ELSE IF "C" \notin DOMAIN s.chars THEN {"C"}
    ELSE {}

GetOrCreateCharacter ==
    \E c \in NextId(db.working) :
        /\ ~db.inTxn
        /\ db' = Write(db, get_or_create_character(db.working, c))
        /\ last' = NoLast
        /\ UNCHANGED <<seedOps, fs, fsOps, faults, lastScan, app>>

Seeded(s) ==
    /\ ~db.inTxn
    /\ seedOps < MaxSeedOps
    /\ s # db.working
    /\ seedOps' = seedOps + 1
    /\ db' = Write(db, s)
    /\ last' = NoLast
    /\ UNCHANGED <<fs, fsOps, faults, lastScan, app>>

IncrementCharacterField ==
    \E c \in DOMAIN db.working.chars \cap SeedChars :
        Seeded(increment_character_field(db.working, c, "logins", 1))

UpsertKill ==
    \E c \in DOMAIN db.working.chars \cap SeedChars, cr \in Creatures :
        Seeded(upsert_kill(db.working, c, cr, "killed_count", 2))

UpsertTrainerRank ==
    \E c \in DOMAIN db.working.chars \cap SeedChars, t \in TrainerNames :
        Seeded(upsert_trainer_rank(db.working, c, t))

UpsertPet ==
    \E c \in DOMAIN db.working.chars \cap SeedChars, p \in PetNames :
        Seeded(upsert_pet(db.working, c, p))

UpdateStartDate ==
    \E c \in DOMAIN db.working.chars \cap SeedChars, d \in Dates :
        Seeded(update_start_date(db.working, c, d))

\* The source_ids argument.  A list longer than the number of characters
\* other than the target repeats a source or names the target, and the loop
\* rejects it at that entry as it rejects a shorter list that does.
SourceLists ==
    UNION {[1..n -> Chars] : n \in 0..(Cardinality(Chars) - 1)}

\* A failing COMMIT is an input only of a call that reaches COMMIT.
CommitFaults(ok) == IF ok THEN {"none", "commit", "commit_rb"} ELSE {"none"}

\* What the history keeps of a call's error: a store error, a request
\* rejected before any row was written, or one rejected after a write.
ErrClass(err, wrote) ==
    IF err \in {"", "store"} THEN err
    ELSE IF wrote THEN "rejected_after_write" ELSE "rejected"

FailedCall(op) ==
    [op |-> op, ok |-> FALSE, err |-> "store", sources |-> <<>>, target |-> NULL,
     pre |-> <<>>]

\* BEGIN fails (a store error, or a transaction is already open): the call
\* returns before it looks at its arguments.
MergeCharacters ==
    \/ /\ db' = merge_characters(db, <<>>, "A", "begin").db
       /\ last' = FailedCall("merge")
       /\ lastScan' = Forgotten
       /\ UNCHANGED <<seedOps, fs, fsOps, faults, app>>
    \/ /\ CanBegin(db)
       /\ \E sources \in SourceLists, target \in Chars :
          \E fault \in CommitFaults(
                       merge_characters_inner(db.working, sources, target).ok) :
        LET r == merge_characters(db, sources, target, fault) IN
        /\ db' = r.db
        /\ last' = [op |-> "merge", ok |-> r.ok,
                    err |-> ErrClass(r.err,
                              merge_characters_inner(db.working, sources, target).store
                                # db.working),
                    sources |-> IF r.ok THEN sources ELSE <<>>,
                    target |-> IF r.ok THEN target ELSE NULL,
                    pre |-> IF r.ok /\ Len(sources) = 1
                            THEN <<db.working.chars[target],
                                   db.working.chars[sources[1]]>>
                            ELSE <<>>]
        /\ lastScan' = Forgotten
        /\ UNCHANGED <<seedOps, fs, fsOps, faults, app>>

UnmergeCharacter ==
    \/ /\ db' = unmerge_character(db, "A", "begin").db
       /\ last' = FailedCall("unmerge")
       /\ lastScan' = Forgotten
       /\ UNCHANGED <<seedOps, fs, fsOps, faults, app>>
    \/ /\ CanBegin(db)
       /\ \E source \in Chars :
          \E fault \in CommitFaults(unmerge_character_inner(db.working, source).ok) :
        LET r == unmerge_character(db, source, fault) IN
        /\ db' = r.db
        /\ last' = [op |-> "unmerge", ok |-> r.ok, err |-> ErrClass(r.err, FALSE),
                    sources |-> IF r.ok THEN <<source>> ELSE <<>>,
                    target |-> IF r.ok THEN db.working.chars[source].merged_into
                               ELSE NULL,
                    pre |-> IF r.ok /\ last.op = "merge" /\ last.ok
                               /\ last.sources = <<source>>
                            THEN last.pre ELSE <<>>]
        /\ lastScan' = Forgotten
        /\ UNCHANGED <<seedOps, fs, fsOps, faults, app>>

\* ------------------------------------------------------- the file system
\* The file system changes between two scan calls; what the last call
\* returned says nothing about the folder as it is now, and is dropped.
FsChanged(f) ==
    /\ fsOps < MaxFsOps
    /\ lastScan.n < MaxScans
    /\ fs' = f
    /\ fsOps' = fsOps + 1
    /\ lastScan' = [Forgotten EXCEPT !.fsSame = FALSE]
    /\ last' = NoLast
    /\ UNCHANGED <<db, seedOps, faults, app>>

\* A log file is written: created, overwritten, or copied from another path.
WriteFile ==
    \E p \in Paths, c \in ContentIds :
        /\ fs[p] # c
        /\ FsChanged([fs EXCEPT ![p] = c])

\* A log file loses its read permission.
MakeUnreadable ==
    \E p \in Paths :
        /\ fs[p] \in ContentIds
        /\ FsChanged([fs EXCEPT ![p] = "unreadable"])

\* ------------------------------------------------------------ scan calls
\* The faults a call can be given: none, or one while the fault budget lasts.
\* A store call for a file is made only if the file is there, the callback
\* and the ledger lookup by path apart, which come before the read.
FaultChoices ==
    IF faults < MaxFaults
    THEN {f \in Faults : \/ f.file = << >>
                         \/ fs[f.file] \in ContentIds
                         \/ f.at \in {"progress", "is_log_scanned"}}
    ELSE {NoFault}

Returned(kind, force, fault, r) ==
    /\ lastScan.n < MaxScans
    /\ db' = r.db
    /\ fault \in {NoFault, r.fired}
    /\ faults' = IF fault = NoFault THEN faults ELSE faults + 1
    /\ lastScan' = [n |-> lastScan.n + 1, kind |-> kind, force |-> force,
                    ok |-> r.ok, result |-> r.result, outcome |-> r.outcome,
                    owner |-> r.owner, calls |-> r.calls,
                    fired |-> r.fired.at, fsSame |-> TRUE]
    /\ last' = NoLast
    /\ UNCHANGED <<seedOps, fs, fsOps, app>>

\* scan_folder has no callback that could panic.
ScanFolder ==
    \E force \in BOOLEAN, fault \in FaultChoices :
        /\ fault.at # "progress"
        /\ Returned("folder", force, fault, scan_folder(db, fs, force, fault))

ScanFolderWithProgress ==
    \E force \in BOOLEAN, fault \in FaultChoices :
        Returned("folder_with_progress", force, fault,
                 scan_folder_with_progress(db, fs, force, FALSE, fault))

\* The explicit file list: every path of the model, a file there or not.
ScanFilesWithProgress ==
    \E force \in BOOLEAN, index_lines \in BOOLEAN, fault \in FaultChoices :
        Returned("files_with_progress", force, fault,
                 scan_files_with_progress(db, fs, SortedPaths, force, index_lines,
                                          fault))

ScanRecursiveWithProgress ==
    \E force \in BOOLEAN, fault \in FaultChoices :
        Returned("recursive_with_progress", force, fault,
                 scan_recursive_with_progress(db, fs, force, TRUE, fault))

Next ==
    \/ WriteFile
    \/ MakeUnreadable
    \/ ScanFolder
    \/ ScanFolderWithProgress
    \/ ScanFilesWithProgress
    \/ ScanRecursiveWithProgress

Spec == Init /\ [][Next]_vars

NextMerge ==
    \/ GetOrCreateCharacter
    \/ IncrementCharacterField
    \/ UpsertTrainerRank
    \/ MergeCharacters
    \/ UnmergeCharacter

SpecMerge == Init /\ [][NextMerge]_vars

NextReads ==
    \/ GetOrCreateCharacter
    \/ IncrementCharacterField
    \/ UpsertKill
    \/ UpsertPet
    \/ UpdateStartDate
    \/ MergeCharacters
    \/ UnmergeCharacter

SpecReads == Init /\ [][NextReads]_vars

\* ------------------------------------------------------------ professions
\* The trainers of the model and the professions trainers.json gives them.
ProfessionTrainers == {"Evus", "Eva", "Bangus Anmash", "Posuhm"}

get_profession(trainer_name) ==
    CASE trainer_name = "Evus" -> "Fighter"
      [] trainer_name = "Eva" -> "Healer"
      [] trainer_name = "Bangus Anmash" -> "Ranger"
      [] trainer_name = "Posuhm" -> "Bloodmage"
      [] OTHER -> NULL

\* The professions an announcement can name.
Announceable == {"Fighter", "Healer", "Ranger"}

update_character_profession(s, id, profession) ==
    IF id \in DOMAIN s.chars THEN [s EXCEPT !.chars[id].profession = profession]
    ELSE s

\* ranks + modified_ranks of the character's trainers of one profession, the
\* trainers with a total of 0 or less left out.
ProfessionRanks(s, char_id, prof) ==
    LET keys == {k \in DOMAIN s.trainers :
                   /\ k[1] = char_id
                   /\ get_profession(k[2]) = prof
                   /\ s.trainers[k].ranks + s.trainers[k].modified_ranks > 0}
    IN SumFn([k \in keys |-> s.trainers[k].ranks + s.trainers[k].modified_ranks],
             keys)

MaxOf3(a, b, c) ==
    IF a >= b /\ a >= c THEN a ELSE IF b >= c THEN b ELSE c

determine_profession(s, char_id) ==
    LET fighter_ranks == ProfessionRanks(s, char_id, "Fighter")
        healer_ranks == ProfessionRanks(s, char_id, "Healer")
        mystic_ranks == ProfessionRanks(s, char_id, "Mystic")
        ranger_ranks == ProfessionRanks(s, char_id, "Ranger")
        bloodmage_ranks == ProfessionRanks(s, char_id, "Bloodmage")
        champion_ranks == ProfessionRanks(s, char_id, "Champion")
        max == MaxOf3(fighter_ranks, healer_ranks, mystic_ranks)
    IN IF ranger_ranks > 0 \/ bloodmage_ranks > 0 \/ champion_ranks > 0
       THEN IF ranger_ranks >= bloodmage_ranks /\ ranger_ranks >= champion_ranks
            THEN "Ranger"
            ELSE IF bloodmage_ranks >= champion_ranks THEN "Bloodmage"
            ELSE "Champion"
       ELSE IF max = 0 THEN "Unknown"
       ELSE IF fighter_ranks = max THEN "Fighter"
       ELSE IF healer_ranks = max THEN "Healer"
       ELSE IF mystic_ranks = max THEN "Mystic"
       ELSE "Unknown"

compute_coin_level(s, char_id) == RankSum(s, {char_id})

\* The loop body of finalize_characters for one character of list_characters.
FinalizeCharacter(s, c) ==
    LET profession == determine_profession(s, c)
        s1 == IF s.chars[c].profession = "Unknown" /\ profession # "Unknown"
              THEN update_character_profession(s, c, profession)
              ELSE s
        coin_level == compute_coin_level(s1, c)
    IN IF coin_level > 0 THEN update_coin_level(s1, c, coin_level) ELSE s1

\* list_characters: the characters that are not merged into another one.
list_characters(s) == {c \in DOMAIN s.chars : s.chars[c].merged_into = NULL}

\* The loop over the characters (ORDER BY name; a turn of it reads and
\* writes the rows of its own character only).
RECURSIVE FinalizeAll(_, _)
FinalizeAll(s, cs) ==
    IF cs = {} THEN s
    ELSE LET c == CHOOSE x \in cs : TRUE IN
         FinalizeAll(FinalizeCharacter(s, c), cs \ {c})

finalize_characters(s) == FinalizeAll(s, list_characters(s))

\* The calls a scan batch ends in, made on the store outside a scan: a
\* trainer rank and a profession announcement as scan_bytes applies them, and
\* finalize_characters.  The history keeps the last call and the characters
\* an announcement has been applied for.
Announced == IF "announced" \in DOMAIN last THEN last.announced ELSE {}

Called(op, s, announcedNow) ==
    /\ ~db.inTxn
    /\ db' = Write(db, s)
    /\ last' = [op |-> op, announced |-> Announced \cup announcedNow]
    /\ UNCHANGED <<fs, fsOps, faults, lastScan, app>>

CreateCharacter ==
    \E c \in NextId(db.working) \cap SeedChars :
        /\ Called("create", get_or_create_character(db.working, c), {})
        /\ UNCHANGED seedOps

TrainerRank ==
    \E c \in DOMAIN db.working.chars, t \in ProfessionTrainers :
        /\ seedOps < MaxRanks
        /\ seedOps' = seedOps + 1
        /\ Called("rank", upsert_trainer_rank(db.working, c, t), {})

ProfessionAnnouncement ==
    \E c \in DOMAIN db.working.chars, profession \in Announceable :
        /\ db.working.chars[c].profession # profession
        /\ Called("announcement",
                  update_character_profession(db.working, c, profession), {c})
        /\ UNCHANGED seedOps

FinalizeCharacters ==
    /\ Called("finalize", finalize_characters(db.working), {})
    /\ UNCHANGED seedOps

NextFinalize ==
    \/ CreateCharacter
    \/ TrainerRank
    \/ ProfessionAnnouncement
    \/ FinalizeCharacters

SpecFinalize == Init /\ [][NextFinalize]_vars

\* Scans of a folder, merges and unmerges, in any order.
NextKills ==
    \/ WriteFile
    \/ ScanFolder
    \/ MergeCharacters
    \/ UnmergeCharacter

SpecKills == Init /\ [][NextKills]_vars

\* ========================================================= line_classifier
\* A message is the text of a log line after its timestamp.  The patterns of
\* parser/patterns.rs are regular expressions; each is written here as the
\* operator that returns its captures, << >> when the message does not match.
NoMatch == << >>

StartsWith(m, pre) == Len(m) >= Len(pre) /\ SubSeq(m, 1, Len(pre)) = pre

EndsWith(m, post) ==
    Len(m) >= Len(post) /\ SubSeq(m, Len(m) - Len(post) + 1, Len(m)) = post

\* The first position at or after from where sub occurs in m, 0 if none.
Find(m, sub, from) ==
    LET I == {i \in from..(Len(m) - Len(sub) + 1) :
                 SubSeq(m, i, i + Len(sub) - 1) = sub}
    IN  IF I = {} THEN 0 ELSE CHOOSE i \in I : \A j \in I : i <= j

\* pre(.+)post: the text between pre and the next post, "" if no match.
Capture(m, pre, post) ==
    LET i == Find(m, pre, 1)
        b == i + Len(pre)
        j == IF i = 0 THEN 0 ELSE Find(m, post, b + 1)
    IN  IF j = 0 THEN "" ELSE SubSeq(m, b, j - 1)

Captures2(a, b) == IF a = "" \/ b = "" THEN NoMatch ELSE <<a, b>>

\* ^You just received (anonymous )?(good|bad) karma
KARMA_RECEIVED(m) ==
    LET head == "You just received "
        rest == SubSeq(m, Len(head) + 1, Len(m))
        r == IF StartsWith(rest, "anonymous ")
             THEN SubSeq(rest, Len("anonymous ") + 1, Len(rest)) ELSE rest
    IN  IF ~StartsWith(m, head) THEN NoMatch
        ELSE IF StartsWith(r, "good karma") THEN << "good" >>
        ELSE IF StartsWith(r, "bad karma") THEN << "bad" >>
        ELSE NoMatch

\* Congratulations, (.+)\. You should now understand much more of (.+)'s teachings
APPLY_LEARNING_CONFIRM(m) ==
    Captures2(Capture(m, "Congratulations, ",
                      ". You should now understand much more of "),
              Capture(m, ". You should now understand much more of ",
                      "'s teachings"))

\* Congratulations, (.+)\. You should now understand .*more of (.+)'s teachings
APPLY_LEARNING_PARTIAL(m) ==
    LET i == Find(m, ". You should now understand ", 1)
        t == IF i = 0 THEN "" ELSE SubSeq(m, i, Len(m))
    IN  Captures2(Capture(m, "Congratulations, ", ". You should now understand "),
                  Capture(t, "more of ", "'s teachings"))

\* Congratulations go out to (.+), who has just passed the .+ circle (.+) test
PROFESSION_CIRCLE_TEST(m) ==
    LET i == Find(m, ", who has just passed the ", 1)
        t == IF i = 0 THEN "" ELSE SubSeq(m, i, Len(m))
    IN  Captures2(Capture(m, "Congratulations go out to ",
                          ", who has just passed the "),
                  Capture(t, " circle ", " test"))

\* Congratulations to (.+), who has just become an? (.+)\.
PROFESSION_BECOME(m) ==
    LET a == Capture(m, ", who has just become a ", ".")
        an == Capture(m, ", who has just become an ", ".")
    IN  Captures2(Capture(m, "Congratulations to ", ", who has just become a"),
                  IF an # "" THEN an ELSE a)

\* your mind is less cluttered now
UNTRAINED(m) == Find(m, "your mind is less cluttered now", 1) # 0

SpeechVerbs == {"says", "exclaims", "yells", "ponders", "thinks", "asks"}

\* ^.+ (says|exclaims|yells|ponders|thinks|asks), "
SPEECH(m) == \E v \in SpeechVerbs : Find(m, " " \o v \o ", \"", 2) # 0

\* ^\(.+\)$
EMOTE(m) == Len(m) > 2 /\ StartsWith(m, "(") /\ EndsWith(m, ")")

\* ^Welcome to Clan Lord, (.+)!
WELCOME_LOGIN(m) ==
    LET n == Capture(m, "Welcome to Clan Lord, ", "!")
    IN  IF StartsWith(m, "Welcome to Clan Lord, ") /\ n # "" THEN << n >>
        ELSE NoMatch

\* ^Welcome back, (.+)!
WELCOME_BACK(m) ==
    LET n == Capture(m, "Welcome back, ", "!")
    IN  IF StartsWith(m, "Welcome back, ") /\ n # "" THEN << n >> ELSE NoMatch

\* ^You verb (.+)\.$ for a verb of verbs: the verb and the rest of the line.
KillCaptures(m, head, verbs) ==
    LET V == {v \in verbs :
                 /\ StartsWith(m, head \o v \o " ")
                 /\ EndsWith(m, ".")
                 /\ Len(m) > Len(head \o v \o " ") + 1}
    IN  IF V = {} THEN NoMatch
        ELSE LET v == CHOOSE x \in V : TRUE
             IN  << v, SubSeq(m, Len(head \o v \o " ") + 1, Len(m) - 1) >>

\* ^You (killed|slaughtered|vanquished|dispatched) (.+)\.$
SOLO_KILL(m) ==
    KillCaptures(m, "You ", {"killed", "slaughtered", "vanquished", "dispatched"})

\* ^You helped (kill|slaughter|vanquish|dispatch) (.+)\.$
ASSISTED_KILL(m) ==
    KillCaptures(m, "You helped ", {"kill", "slaughter", "vanquish", "dispatch"})

KillVerb(v) ==
    CASE v \in {"killed", "kill"} -> "Killed"
      [] v \in {"slaughtered", "slaughter"} -> "Slaughtered"
      [] v \in {"vanquished", "vanquish"} -> "Vanquished"
      [] v \in {"dispatched", "dispatch"} -> "Dispatched"

Ignored == [type |-> "Ignored"]

UpperCase == "ABCDEFGHIJKLMNOPQRSTUVWXYZ"
LowerCase == "abcdefghijklmnopqrstuvwxyz"

\* One letter replaced by the letter at its place in the other alphabet.
Recase(c, from, to) ==
    LET i == Find(from, c, 1) IN IF i = 0 THEN c ELSE SubSeq(to, i, i)

RECURSIVE to_lowercase(_)
to_lowercase(raw) ==
    IF raw = "" THEN ""
    ELSE Recase(SubSeq(raw, 1, 1), UpperCase, LowerCase)
           \o to_lowercase(SubSeq(raw, 2, Len(raw)))

normalize_profession(raw) ==
    LET other == to_lowercase(raw) IN
    CASE other = "fighter" -> "Fighter"
      [] other = "healer" -> "Healer"
      [] other = "mystic" -> "Mystic"
      [] other = "ranger" -> "Ranger"
      [] other = "bloodmage" -> "Bloodmage"
      [] other = "champion" -> "Champion"
      [] OTHER ->
           IF other = "" THEN ""
           ELSE Recase(SubSeq(other, 1, 1), LowerCase, UpperCase)
                  \o SubSeq(other, 2, Len(other))

strip_article_any(name) ==
    IF StartsWith(name, "an ") THEN SubSeq(name, 4, Len(name))
    ELSE IF StartsWith(name, "a ") THEN SubSeq(name, 3, Len(name))
    ELSE IF StartsWith(name, "the ") THEN SubSeq(name, 5, Len(name))
    ELSE name

strip_article(name) ==
    IF StartsWith(name, "an ") THEN SubSeq(name, 4, Len(name))
    ELSE IF StartsWith(name, "a ") THEN SubSeq(name, 3, Len(name))
    ELSE name

ApplyLearningRank(caps, is_full) ==
    [type |-> "ApplyLearningRank", character_name |-> caps[1],
     trainer_name |-> caps[2], is_full |-> is_full]

ProfessionEvent(caps) ==
    [type |-> "ProfessionAnnouncement", name |-> caps[1],
     profession |-> normalize_profession(caps[2])]

\* The rules below the speech and emote filter.  No message of Lines begins
\* with a system marker or matches a pattern after the kill patterns.
classify_rest(message) ==
    IF WELCOME_LOGIN(message) # NoMatch
    THEN [type |-> "Login", name |-> WELCOME_LOGIN(message)[1]]
    ELSE IF WELCOME_BACK(message) # NoMatch
    THEN [type |-> "Reconnect", name |-> WELCOME_BACK(message)[1]]
    ELSE IF SOLO_KILL(message) # NoMatch
    THEN [type |-> "SoloKill",
          creature |-> strip_article(SOLO_KILL(message)[2]),
          verb |-> KillVerb(SOLO_KILL(message)[1])]
    ELSE IF ASSISTED_KILL(message) # NoMatch
    THEN [type |-> "AssistedKill",
          creature |-> strip_article(ASSISTED_KILL(message)[2]),
          verb |-> KillVerb(ASSISTED_KILL(message)[1])]
    ELSE Ignored

classify_line_partial_first(message) ==
    IF message = "" THEN Ignored
    ELSE IF KARMA_RECEIVED(message) # NoMatch
    THEN [type |-> "KarmaReceived", good |-> KARMA_RECEIVED(message)[1] = "good"]
    ELSE IF APPLY_LEARNING_PARTIAL(message) # NoMatch
    THEN ApplyLearningRank(APPLY_LEARNING_PARTIAL(message), FALSE)
    ELSE IF APPLY_LEARNING_CONFIRM(message) # NoMatch
    THEN ApplyLearningRank(APPLY_LEARNING_CONFIRM(message), TRUE)
    ELSE IF PROFESSION_CIRCLE_TEST(message) # NoMatch
    THEN ProfessionEvent(PROFESSION_CIRCLE_TEST(message))
    ELSE IF PROFESSION_BECOME(message) # NoMatch
    THEN ProfessionEvent(PROFESSION_BECOME(message))
    ELSE IF UNTRAINED(message) THEN [type |-> "Untrained"]
    ELSE IF SPEECH(message) \/ EMOTE(message) THEN Ignored
    ELSE classify_rest(message)

classify_line(message) ==
    IF message = "" THEN Ignored
    ELSE IF KARMA_RECEIVED(message) # NoMatch
    THEN [type |-> "KarmaReceived", good |-> KARMA_RECEIVED(message)[1] = "good"]
    ELSE IF APPLY_LEARNING_CONFIRM(message) # NoMatch
    THEN ApplyLearningRank(APPLY_LEARNING_CONFIRM(message), TRUE)
    ELSE IF APPLY_LEARNING_PARTIAL(message) # NoMatch
    THEN ApplyLearningRank(APPLY_LEARNING_PARTIAL(message), FALSE)
    ELSE IF PROFESSION_CIRCLE_TEST(message) # NoMatch
    THEN ProfessionEvent(PROFESSION_CIRCLE_TEST(message))
    ELSE IF PROFESSION_BECOME(message) # NoMatch
    THEN ProfessionEvent(PROFESSION_BECOME(message))
    ELSE IF UNTRAINED(message) THEN [type |-> "Untrained"]
    ELSE IF SPEECH(message) \/ EMOTE(message) THEN Ignored
    ELSE classify_rest(message)

kill_verb_to_field(verb, assisted) ==
    CASE verb = "Killed" /\ ~assisted -> "killed_count"
      [] verb = "Slaughtered" /\ ~assisted -> "slaughtered_count"
      [] verb = "Vanquished" /\ ~assisted -> "vanquished_count"
      [] verb = "Dispatched" /\ ~assisted -> "dispatched_count"
      [] verb = "Killed" /\ assisted -> "assisted_kill_count"
      [] verb = "Slaughtered" /\ assisted -> "assisted_slaughter_count"
      [] verb = "Vanquished" /\ assisted -> "assisted_vanquish_count"
      [] verb = "Dispatched" /\ assisted -> "assisted_dispatch_count"

\* The kill arms of scan_bytes's match on the event of a line.
ApplyKillEvent(s, char_id, e) ==
    IF e.type \in {"SoloKill", "AssistedKill"}
    THEN upsert_kill(s, char_id, e.creature,
                     kill_verb_to_field(e.verb, e.type = "AssistedKill"),
                     creature_value(e.creature))
    ELSE s

\* ---------------------------------------------------------------- messages
LineNameSeq == << "Ajahn", "Squib", "Kargan" >>
LineNames ==
    {LineNameSeq[i] : i \in 1..(IF MaxLineNames < 3 THEN MaxLineNames ELSE 3)}
LineTrainers == {"Evus", "Histia"}
Speakers == {"Aitnos", "Haima Myrtillus"}
LineVerbs == {"says", "thinks"}

SpeechBodies ==
    {"Congratulations, " \o n \o ". You should now understand much more of "
       \o t \o "'s teachings." : n \in LineNames, t \in LineTrainers}
    \cup
    {"Congratulations, " \o n \o ". You should now understand more of "
       \o t \o "'s teachings." : n \in LineNames, t \in LineTrainers}
    \cup
    {"Would you like to apply some of your learning to " \o t \o "'s lessons?" :
       t \in LineTrainers}
    \cup
    {"Congratulations go out to " \o n \o ", who has just passed the seventh circle "
       \o p \o " test." : n \in LineNames, p \in {"fighter", "healer"}}
    \cup
    {"Congratulations to " \o n \o ", who has just become a " \o p \o "." :
       n \in LineNames, p \in {"Bloodmage", "seer"}}
    \cup
    {n \o ", your mind is less cluttered now." : n \in LineNames}
    \cup
    {"hello", "You killed the Ramandu.", "Would you like to untrain?"}

SpeechLines ==
    {sp \o " " \o v \o ", \"" \o b \o "\"" :
       sp \in Speakers, v \in LineVerbs, b \in SpeechBodies}

KarmaLines ==
    {"You just received " \o k \o " karma from " \o n \o "." :
       k \in {"good", "bad"}, n \in LineNames}
    \cup {"You just received anonymous good karma.",
          "You just received anonymous bad karma."}

CreaturePhrases == {"a Ramandu", "the Ramandu", "Ramandu", "an Orga", "a Rat"}

\* The kill messages whose counter is a column of the model's kill rows.
KillLines ==
    {"You " \o v \o " " \o c \o "." :
       v \in {"killed", "slaughtered"}, c \in CreaturePhrases}
    \cup {"You helped kill " \o c \o "." : c \in CreaturePhrases}

OtherLines ==
    {"", "(Fen waves)", "You have been studying for 3 days."}
    \cup {"Welcome to Clan Lord, " \o n \o "!" : n \in LineNames}
    \cup {"Welcome back, " \o n \o "!" : n \in LineNames}

Lines == SpeechLines \cup KarmaLines \cup KillLines \cup OtherLines

\* classify_line applied to any message.
ClassifyLine ==
    \E message \in Lines :
        /\ last' = [op |-> "classify", line |-> message,
                    event |-> classify_line(message)]
        /\ UNCHANGED <<db, seedOps, fs, fsOps, faults, lastScan, app>>

SpecClassify == Init /\ [][ClassifyLine]_vars

\* scan_bytes on one kill message of a character's log.
ScanKillLine ==
    \E name \in SeedChars, message \in KillLines :
        /\ seedOps < MaxKillLines
        /\ seedOps' = seedOps + 1
        /\ ~db.inTxn
        /\ db' = Write(db, ApplyKillEvent(get_or_create_character(db.working, name),
                                          name, classify_line(message)))
        /\ last' = [op |-> "scan_line", char |-> name, line |-> message]
        /\ UNCHANGED <<fs, fsOps, faults, lastScan, app>>

SpecKillLines == Init /\ [][ScanKillLine]_vars

\* ================================================================ encoding
\* Bytes are integers 0..255, decoded text is a sequence of code points.
LF == 10

IsCont(b) == b \in 128..191

\* The length of the UTF-8 sequence bs begins with, 0 if it begins with none.
Utf8Step(bs) ==
    LET b == bs[1] n == Len(bs) IN
    IF b < 128 THEN 1
    ELSE IF b \in 194..223 /\ n >= 2 /\ IsCont(bs[2]) THEN 2
    ELSE IF /\ b \in 224..239 /\ n >= 3 /\ IsCont(bs[2]) /\ IsCont(bs[3])
            /\ (b = 224 => bs[2] >= 160) /\ (b = 237 => bs[2] <= 159) THEN 3
    ELSE IF /\ b \in 240..244 /\ n >= 4
            /\ IsCont(bs[2]) /\ IsCont(bs[3]) /\ IsCont(bs[4])
            /\ (b = 240 => bs[2] >= 144) /\ (b = 244 => bs[2] <= 143) THEN 4
    ELSE 0

Utf8Char(bs, k) ==
    CASE k = 1 -> bs[1]
      [] k = 2 -> (bs[1] - 192) * 64 + (bs[2] - 128)
      [] k = 3 -> (bs[1] - 224) * 4096 + (bs[2] - 128) * 64 + (bs[3] - 128)
      [] k = 4 -> (bs[1] - 240) * 262144 + (bs[2] - 128) * 4096
                    + (bs[3] - 128) * 64 + (bs[4] - 128)

\* std::str::from_utf8: Ok or Err.
RECURSIVE utf8_ok(_)
utf8_ok(bs) ==
    IF bs = << >> THEN TRUE
    ELSE LET k == Utf8Step(bs) IN
         k # 0 /\ utf8_ok(SubSeq(bs, k + 1, Len(bs)))

\* The text of a valid UTF-8 byte sequence.
RECURSIVE utf8_text(_)
utf8_text(bs) ==
    IF bs = << >> THEN << >>
    ELSE LET k == Utf8Step(bs) IN
         << Utf8Char(bs, k) >> \o utf8_text(SubSeq(bs, k + 1, Len(bs)))

MacRomanPatch ==
    << 196, 197, 199, 201, 209, 214, 220, 225, 224, 226, 228, 227, 229, 231,
       233, 232, 234, 235, 237, 236, 238, 239, 241, 243, 242, 244, 246, 245,
       250, 249, 251, 252 >>

patch_mac_roman_bytes(line) ==
    [i \in 1..Len(line) |->
        IF line[i] \in 128..159 THEN MacRomanPatch[line[i] - 127] ELSE line[i]]

\* Windows-1252, bytes 0x80..0x9F.
W1252High ==
    << 8364, 129, 8218, 402, 8222, 8230, 8224, 8225, 710, 8240, 352, 8249, 338,
       141, 381, 143, 144, 8216, 8217, 8220, 8221, 8226, 8211, 8212, 732, 8482,
       353, 8250, 339, 157, 382, 376 >>

WINDOWS_1252_decode(bs) ==
    [i \in 1..Len(bs) |->
        IF bs[i] \in 128..159 THEN W1252High[bs[i] - 127] ELSE bs[i]]

\* slice::split: the pieces between the separators, the empty ones too.
RECURSIVE SplitOn(_, _)
SplitOn(xs, sep) ==
    LET I == {i \in 1..Len(xs) : xs[i] = sep} IN
    IF I = {} THEN << xs >>
    ELSE LET i == CHOOSE x \in I : \A y \in I : x <= y
         IN  << SubSeq(xs, 1, i - 1) >> \o SplitOn(SubSeq(xs, i + 1, Len(xs)), sep)

DecodeLine(line) ==
    IF utf8_ok(line) THEN utf8_text(line)
    ELSE WINDOWS_1252_decode(patch_mac_roman_bytes(line))

\* The loop of decode_log_bytes over the lines, result being the text so far.
RECURSIVE DecodeLines(_, _)
DecodeLines(lines, result) ==
    IF lines = << >> THEN result
    ELSE DecodeLines(Tail(lines),
                     (IF result # << >> THEN result \o << LF >> ELSE result)
                       \o DecodeLine(Head(lines)))

decode_log_bytes(bytes) ==
    IF utf8_ok(bytes) THEN utf8_text(bytes)
    ELSE DecodeLines(SplitOn(bytes, LF), << >>)

\* A, LF, CR, the two bytes of a UTF-8 e-grave, the Windows-1252 yen sign and
\* the Mac Roman e-grave.
ByteAlphabet == {65, 10, 13, 195, 168, 165, 143}

\* decode_log_bytes on a buffer, and on the buffer with one more byte.
DecodeBytes ==
    \E b \in ByteAlphabet :
        LET bytes == Append(IF last.op = "decode" THEN last.bytes ELSE << >>, b) IN
        /\ Len(bytes) <= MaxBytes
        /\ last' = [op |-> "decode", bytes |-> bytes,
                    text |-> decode_log_bytes(bytes)]
        /\ UNCHANGED <<db, seedOps, fs, fsOps, faults, lastScan, app>>

SpecDecode == Init /\ [][DecodeBytes]_vars

\* ======================================================== get_highest_kill
\* (killed_count + slaughtered_count + vanquished_count + dispatched_count)
\* * creature_value; the model's kill rows have the first two solo columns.
KillScore(row) == (row.killed_count + row.slaughtered_count) * row.creature_value

HighestOf(s, char_id, Key(_)) ==
    LET rows == {k \in DOMAIN s.kills :
                    k[1] = char_id /\ s.kills[k].creature_value > 0}
    IN  IF rows = {} THEN {NULL}
        ELSE {<<k[2], KillScore(s.kills[k])>> :
                 k \in {x \in rows :
                          \A y \in rows : Key(s.kills[y]) <= Key(s.kills[x])}}

KillValue(row) == row.creature_value

get_highest_kill_by_value(s, char_id) == HighestOf(s, char_id, KillValue)

\* SELECT ... WHERE character_id = ? AND creature_value > 0
\* ORDER BY score DESC LIMIT 1: the rows the query may return, NULL for
\* QueryReturnedNoRows.  Rows of equal score come in no defined order.
get_highest_kill(s, char_id) == HighestOf(s, char_id, KillScore)

\* The values upsert_kill is called with: the creature's, 0 for none.
KillValues == [c \in {"Rat", "Vermine", "Orga"} |->
                 CASE c = "Rat" -> 2 [] c = "Vermine" -> 5 [] OTHER -> 0]

KillFields == {"killed_count", "slaughtered_count", "assisted_kill_count"}

RecordKill ==
    \E name \in SeedChars, creature \in DOMAIN KillValues, field \in KillFields :
        /\ seedOps < MaxKillOps
        /\ seedOps' = seedOps + 1
        /\ ~db.inTxn
        /\ db' = Write(db, upsert_kill(get_or_create_character(db.working, name),
                                       name, creature, field, KillValues[creature]))
        /\ last' = [op |-> "upsert_kill"]
        /\ UNCHANGED <<fs, fsOps, faults, lastScan, app>>

GetHighestKill ==
    \E char_id \in SeedChars :
        \E r \in get_highest_kill(db.working, char_id) :
            /\ last' = [op |-> "get_highest_kill", char |-> char_id, result |-> r]
            /\ UNCHANGED <<db, seedOps, fs, fsOps, faults, lastScan, app>>

NextHighest == RecordKill \/ GetHighestKill

SpecHighest == Init /\ [][NextHighest]_vars

\* ========================================================= amanuensis-gui
\* The Tauri commands on AppState.  A Database value is a number: each
\* Database::open makes a new one.  app.db is state.db, app.tasks the
\* closures running under spawn_blocking, each owning the Database its
\* command took out of state.db.  The store's content is the subject of the
\* specifications above; here the core calls are kept by how they end.
DbCommands ==
    {"list_characters", "merge_characters", "unmerge_character", "reset_database"}

ScanCommands == {"scan_logs", "scan_files", "rescan_logs"}

\* How the closure of a scan command ends: at Ok(result) after the Database is
\* put back, or at the ? of reset_log_data (rescan_logs only), of the scan or
\* of finalize_characters.
ScanOutcomes(cmd) ==
    {"ok", "scan_err", "finalize_err"}
      \cup (IF cmd = "rescan_logs" THEN {"reset_err"} ELSE {})

GuiCall(op, ok, err, handle) ==
    [op |-> op, ok |-> ok, err |-> err, handle |-> handle,
     running |-> {t.handle : t \in app.tasks}]

\* open_database: Database::open, finalize_characters, then state.db and
\* state.db_path are set.
OpenDatabase ==
    /\ app.next <= MaxHandles
    /\ app' = [app EXCEPT !.db = app.next, !.db_path = "path", !.next = @ + 1]
    /\ last' = GuiCall("open_database", TRUE, "", app.next)
    /\ UNCHANGED <<db, seedOps, fs, fsOps, faults, lastScan>>

\* A command that locks state.db and calls the core on the Database in it.
DbCommand ==
    \E cmd \in DbCommands :
        /\ last' = IF app.db = None
                   THEN GuiCall(cmd, FALSE, "No database open", None)
                   ELSE GuiCall(cmd, TRUE, "", app.db)
        /\ UNCHANGED <<db, seedOps, fs, fsOps, faults, lastScan, app>>

\* scan_logs, scan_files, rescan_logs up to spawn_blocking: take().
ScanCommandStart ==
    \E cmd \in ScanCommands :
        IF app.db = None
        THEN /\ last' = GuiCall(cmd, FALSE, "No database open", None)
             /\ UNCHANGED <<db, seedOps, fs, fsOps, faults, lastScan, app>>
        ELSE /\ app' = [app EXCEPT !.db = None,
                                   !.tasks = @ \cup {[cmd |-> cmd, handle |-> app.db]}]
             /\ last' = [GuiCall(cmd, TRUE, "", app.db) EXCEPT !.op = "take"]
             /\ UNCHANGED <<db, seedOps, fs, fsOps, faults, lastScan>>

\* The closure: on Ok the Database goes back into state.db, on an error the
\* closure returns at the ? and the parser, with the Database, is dropped.
ScanCommandEnd(t, outcome) ==
    IF outcome = "ok" THEN [app EXCEPT !.tasks = @ \ {t}, !.db = t.handle]
    ELSE [app EXCEPT !.tasks = @ \ {t}]

ScanCommandFinish ==
    \E t \in app.tasks :
        \E outcome \in ScanOutcomes(t.cmd) :
            /\ app' = ScanCommandEnd(t, outcome)
            /\ last' = [op |-> t.cmd, ok |-> outcome = "ok",
                        err |-> IF outcome = "ok" THEN "" ELSE outcome,
                        handle |-> t.handle,
                        running |-> {x.handle : x \in app.tasks \ {t}}]
            /\ UNCHANGED <<db, seedOps, fs, fsOps, faults, lastScan>>

NextGui == OpenDatabase \/ DbCommand \/ ScanCommandStart \/ ScanCommandFinish

SpecGui == Init /\ [][NextGui]_vars

\* ====================================================== set_modified_ranks
\* INSERT ... VALUES (?, ?, 0, ?) ON CONFLICT DO UPDATE SET modified_ranks =
\* excluded.modified_ranks, then the coin level from the character's own
\* trainer rows.
set_modified_ranks(s, char_id, trainer_name, modified_ranks) ==
    LET k == <<char_id, trainer_name>>
        s1 == IF k \in DOMAIN s.trainers
              THEN [s EXCEPT !.trainers[k].modified_ranks = modified_ranks]
              ELSE [s EXCEPT !.trainers =
                      @ @@ (k :> [NewTrainer EXCEPT !.modified_ranks = modified_ranks])]
    IN  update_coin_level(s1, char_id, RankSum(s1, {char_id}))

ModifiedRanks == {2}

SetModifiedRanks ==
    \E c \in DOMAIN db.working.chars \cap SeedChars, t \in TrainerNames,
       m \in ModifiedRanks :
        /\ Called("set_modified_ranks", set_modified_ranks(db.working, c, t, m), {})
        /\ UNCHANGED seedOps

\* Trainer ranks, merges and unmerges, set_modified_ranks and
\* finalize_characters, in any order.
NextAggregate ==
    \/ GetOrCreateCharacter
    \/ UpsertTrainerRank
    \/ MergeCharacters
    \/ UnmergeCharacter
    \/ SetModifiedRanks
    \/ FinalizeCharacters

SpecAggregate == Init /\ [][NextAggregate]_vars

\* ================================================================ departs
DepartCounts == {0, 3}

DepartEvents ==
    {[type |-> "FirstDepart"]} \cup {[type |-> "Depart", count |-> n] : n \in DepartCounts}

ApplyDepartEvent_adds(s, char_id, e) ==
    increment_character_field(s, char_id, "departs",
                              IF e.type = "FirstDepart" THEN 1 ELSE e.count)

\* The FirstDepart and Depart arms of scan_bytes's match: departs + 1, and
\* UPDATE characters SET departs = count WHERE id = char_id.
ApplyDepartEvent(s, char_id, e) ==
    IF e.type = "FirstDepart"
    THEN increment_character_field(s, char_id, "departs", 1)
    ELSE IF char_id \in DOMAIN s.chars
    THEN [s EXCEPT !.chars[char_id].departs = e.count]
    ELSE s

\* What has been applied for a character: the count of the last Depart event
\* (0 before the first), the FirstDepart events since, and the departs the
\* last Depart event found.
NoDeparts == [abs |-> 0, firsts |-> 0, found |-> 0]

DepartHistory == IF "departs" \in DOMAIN last THEN last.departs
                 ELSE [c \in SeedChars |-> NoDeparts]

\* scan_bytes on one depart message of a character's log.
ScanDepartLine ==
    \E name \in SeedChars, e \in DepartEvents :
        LET s == get_or_create_character(db.working, name) IN
        /\ seedOps < MaxDepartEvents
        /\ seedOps' = seedOps + 1
        /\ ~db.inTxn
        /\ db' = Write(db, ApplyDepartEvent(s, name, e))
        /\ last' = [op |-> "depart", char |-> name, event |-> e,
                    departs |->
                      [DepartHistory EXCEPT ![name] =
                         IF e.type = "FirstDepart" THEN [@ EXCEPT !.firsts = @ + 1]
                         ELSE [abs |-> e.count, firsts |-> 0,
                               found |-> s.chars[name].departs]]]
        /\ UNCHANGED <<fs, fsOps, faults, lastScan, app>>

SpecDeparts == Init /\ [][ScanDepartLine]_vars

\* ================================================== merge relation: claims
\* The rows the connection reads (its committed database when no
\* transaction is open).
Rows == db.working

\* The characters whose merged_into points to c.
SourcesOf(c) == {x \in DOMAIN Rows.chars : Rows.chars[x].merged_into = c}

\* Sum of ranks + modified_ranks + apply_learning_ranks over the trainer rows
\* of the characters in ids.
RanksOf(ids) ==
    LET keys == {k \in DOMAIN Rows.trainers : k[1] \in ids} IN
    SumFn([k \in keys |-> Rows.trainers[k].ranks + Rows.trainers[k].modified_ranks
                            + Rows.trainers[k].apply_learning_ranks], keys)

\* C5: a rejected merge or unmerge request (target already merged, a source
\* equal to the target, a source already merged at any position of the list,
\* unmerge of a character that is not merged) returns an error and leaves
\* every row of the store unchanged.
C5_RejectedRequestChangesNothing ==
    [][(last'.op \in {"merge", "unmerge"}
          /\ last'.err \in {"rejected", "rejected_after_write"})
       => (~last'.ok /\ db'.working = db.working /\ db'.committed = db.committed
             /\ ~db'.inTxn)]_vars

\* C5 witness: a merge was rejected at a later entry of its source list,
\* after an earlier entry's pointer had been written.
C5_Witness ==
    /\ last.op = "merge"
    /\ last.err = "rejected_after_write"
    /\ \E c \in DOMAIN Rows.chars : Rows.chars[c].logins > 0

\* C6: after any sequence of merge and unmerge calls the merge relation is
\* single-level: no character whose merged_into is set has another character
\* merged into it.
C6_SingleLevel ==
    \A c \in DOMAIN Rows.chars :
        Rows.chars[c].merged_into # NULL => SourcesOf(c) = {}

\* C7 as stated: merge([S], T) followed at once by unmerge(S) restores T's
\* row and S's row to their values before the merge.
C7_RoundTripRestoresRows ==
    (last.op = "unmerge" /\ last.ok /\ last.pre # <<>>)
    => /\ Rows.chars[last.target] = last.pre[1]
       /\ Rows.chars[last.sources[1]] = last.pre[2]

\* C7 amended: merge([S], T) followed at once by unmerge(S) restores S's row
\* and every column of T's row except the stored coin level, which is the
\* rank sum over T and the sources T still has.
C7_RoundTripRestoresRowsButCoinLevel ==
    (last.op = "unmerge" /\ last.ok /\ last.pre # <<>>)
    => /\ [Rows.chars[last.target] EXCEPT !.coin_level = last.pre[1].coin_level]
            = last.pre[1]
       /\ Rows.chars[last.target].coin_level
            = RanksOf({last.target} \cup SourcesOf(last.target))
       /\ Rows.chars[last.sources[1]] = last.pre[2]

\* C7 witness: the round trip was made for a target and a source that both
\* have logins of their own.
C7_Witness ==
    /\ last.op = "unmerge" /\ last.ok /\ last.pre # <<>>
    /\ last.pre[1].logins > 0
    /\ last.pre[2].logins > 0

\* The earliest non-null start_date of the characters in ids, 0 if none.
EarliestDate(ids) ==
    LET ds == {Rows.chars[x].start_date : x \in ids} \ {0} IN
    IF ds = {} THEN 0 ELSE CHOOSE m \in ds : \A d \in ds : m <= d

\* C8: a merge-aware read of a primary character combines its own rows with
\* the rows of exactly the characters whose merged_into points to it: scalar
\* and kill counters summed, pets de-duplicated by name, start_date the
\* earliest non-null value.
C8_MergedReads ==
    \A c \in DOMAIN Rows.chars :
        Rows.chars[c].merged_into = NULL =>
        LET ids == {c} \cup SourcesOf(c)
            ch == get_character_merged(Rows, c)
            kills == get_kills_merged(Rows, c)
        IN /\ \A f \in {"logins", "deaths", "departs"} :
                ch[f] = SumFn([x \in ids |-> Rows.chars[x][f]], ids)
           /\ ch.start_date = EarliestDate(ids)
           /\ DOMAIN kills = {k[2] : k \in {k \in DOMAIN Rows.kills : k[1] \in ids}}
           /\ \A cr \in DOMAIN kills :
                LET own == {x \in ids : <<x, cr>> \in DOMAIN Rows.kills} IN
                \A f \in {"killed_count", "slaughtered_count",
                          "assisted_kill_count", "killed_by_count"} :
                    kills[cr][f] = SumFn([x \in own |-> Rows.kills[<<x, cr>>][f]], own)
           /\ get_pets_merged(Rows, c)
                = {p \in PetNames : \E x \in ids : <<x, p>> \in Rows.pets}

\* C8 witness: a primary character with a start date has a source with an
\* earlier one.
C8_Witness ==
    \E c \in DOMAIN Rows.chars : \E x \in SourcesOf(c) :
        /\ Rows.chars[c].merged_into = NULL
        /\ Rows.chars[x].start_date # 0
        /\ Rows.chars[x].start_date < Rows.chars[c].start_date

\* C9: a successful merge sets merged_into of every listed source to the
\* target and the target's stored coin level to the rank sum over the target
\* and all its sources; a successful unmerge clears the pointer and recomputes
\* the former target's stored coin level over it and its remaining sources.
C9_MergeAndUnmergeEffects ==
    /\ (last.op = "merge" /\ last.ok) =>
          /\ \A i \in 1..Len(last.sources) :
                Rows.chars[last.sources[i]].merged_into = last.target
          /\ Rows.chars[last.target].coin_level
                = RanksOf({last.target} \cup SourcesOf(last.target))
    /\ (last.op = "unmerge" /\ last.ok) =>
          /\ Rows.chars[last.sources[1]].merged_into = NULL
          /\ Rows.chars[last.target].coin_level
                = RanksOf({last.target} \cup SourcesOf(last.target))

\* C9 witness: an unmerge left the former target with another source, and
\* both of them have trainer ranks.
C9_Witness ==
    /\ last.op = "unmerge" /\ last.ok
    /\ RanksOf({last.target}) > 0
    /\ RanksOf(SourcesOf(last.target)) > 0

\* ============================================================ scans: claims
\* A step that is a scan call returning.
ScanReturns == lastScan'.n = lastScan.n + 1

\* The counters of a store: every table but the ledger and the line index.
Counters(s) ==
    [chars |-> s.chars, kills |-> s.kills, trainers |-> s.trainers,
     lastys |-> s.lastys, pets |-> s.pets]

\* The counters of s1 are those of s0, but for characters s1 has in addition
\* with the rows their creation gives them.
SameCounters(s0, s1) ==
    /\ DOMAIN s0.chars \subseteq DOMAIN s1.chars
    /\ \A c \in DOMAIN s1.chars :
          s1.chars[c] = IF c \in DOMAIN s0.chars THEN s0.chars[c] ELSE NewCharacter
    /\ s1.kills = s0.kills /\ s1.trainers = s0.trainers
    /\ s1.lastys = s0.lastys /\ s1.pets = s0.pets

\* C1: scanning the same unmodified folder twice with force=false scans zero
\* files on the second run (every file is counted as skipped) and leaves every
\* counter of every character, kill, trainer, lasty and pet record unchanged.
\* Stated for a folder all of whose log files can be read, and for two calls
\* of scan_folder that both return Ok.
C1_SecondScanSkipsEverything ==
    [][(/\ ScanReturns
        /\ lastScan.n >= 1 /\ lastScan.fsSame
        /\ lastScan.kind = "folder" /\ lastScan.ok /\ ~lastScan.force
        /\ lastScan'.kind = "folder" /\ lastScan'.ok /\ ~lastScan'.force
        /\ \A p \in Paths : fs[p] # "unreadable")
       => (/\ lastScan'.result.files_scanned = 0
           /\ lastScan'.result.skipped
                = Cardinality({p \in Paths : fs[p] # "absent"})
           /\ Counters(db'.committed) = Counters(db.committed))]_vars

\* C2: a file with the content of an already-ledgered file, at a path the
\* ledger does not have, is counted in skipped and not in files_scanned by a
\* scan with force=false, and no counter changes: a scan all of whose files
\* are in the ledger by path or by content leaves every counter as it was.
C2_CopyAtNewPathIsSkipped ==
    [][(ScanReturns /\ lastScan'.ok /\ ~lastScan'.force)
       => LET ledger == db.working.log_files
              done == {p \in Paths : lastScan'.outcome[p] # "none"}
              copies == {p \in done :
                           /\ fs[p] \in ContentIds
                           /\ p \notin DOMAIN ledger
                           /\ \E q \in DOMAIN ledger :
                                 ledger[q].content_hash = hash_bytes(fs[p])}
          IN /\ \A p \in copies : lastScan'.outcome[p] = "skipped_hash"
             /\ lastScan'.result.skipped
                  = Cardinality({p \in done : lastScan'.outcome[p]
                                                \in {"skipped_path", "skipped_hash"}})
             /\ lastScan'.result.files_scanned
                  = Cardinality({p \in done : lastScan'.outcome[p] = "scanned"})
             /\ (\A p \in done : p \in copies \/ p \in DOMAIN ledger)
                  => /\ SameCounters(db.working, db'.working)
                     /\ db'.working.log_files = ledger]_vars

\* C2 witness: a second scan, with force=false, has scanned no file and has
\* skipped one for its content, which the first scan had put in the ledger.
C2_Witness ==
    /\ lastScan.n = 2 /\ lastScan.ok /\ ~lastScan.force
    /\ lastScan.result.files_scanned = 0
    /\ \E p \in Paths : lastScan.outcome[p] = "skipped_hash"
    /\ \E c \in DOMAIN db.working.chars : db.working.chars[c].logins > 0

\* C3: if a scan call (folder, explicit files or recursive) returns an error,
\* the store holds the state it held before the scan started: no event
\* effects, character rows or ledger entries of that scan are persisted.
C3_FailedScanPersistsNothing ==
    [][(ScanReturns /\ ~lastScan'.ok) => db'.committed = db.committed]_vars

\* C4: a store error raised inside the scan transaction, one raised while
\* the events of a single file are applied included, aborts the scan (the
\* call returns an error); only files that cannot be read are counted as
\* errored with the scan going on.
C4_StoreErrorAbortsScan ==
    /\ lastScan.fired \in {"is_log_scanned", "is_hash_scanned",
                           "get_or_create_character", "scan_bytes",
                           "mark_log_scanned"}
         => ~lastScan.ok
    /\ lastScan.ok => \A p \in Paths : lastScan.outcome[p] # "store_error"

\* C10: the bulk-write settings applied at scan start are in effect only
\* while the scan runs: on every return path of a scan, success or failure,
\* the settings are the ones the connection had before the call.
C10_PragmasReverted ==
    [][ScanReturns => db'.pragmas = db.pragmas]_vars

\* C11: a panic raised by the progress callback in the middle of a scan
\* leaves no partial scan effect in the store: when the panic has unwound out
\* of the scan call, the scan's transaction has been rolled back (no
\* transaction is open and the connection reads what was committed before).
C11_CallbackPanicRollsBack ==
    lastScan.fired = "progress" => (~db.inTxn /\ db.working = db.committed)

\* The files a scan call finds: the log files of the character directories,
\* or for scan_files_with_progress the paths it is given.
Discovered(kind) ==
    IF kind = "files_with_progress" THEN Paths
    ELSE {p \in Paths : fs[p] # "absent"}

\* C12: a file whose bytes cannot be read is counted in errors and does not
\* abort the scan: a scan in which no store call fails returns Ok whatever
\* files cannot be read, and a scan that returns Ok has dealt with every
\* discovered file, has counted each file whose read failed in errors, and
\* has committed the ledger entries of the files it scanned.
C12_UnreadableFileIsCounted ==
    [][ScanReturns
       => LET o == lastScan'.outcome
              found == Discovered(lastScan'.kind)
          IN /\ (lastScan'.fired = "none" /\ ~db.inTxn) => lastScan'.ok
             /\ lastScan'.ok =>
                   /\ \A p \in found : o[p] # "none"
                   /\ \A p \in found :
                         ~Readable(fs, p) => o[p] \in {"unreadable", "skipped_path"}
                   /\ \A p \in Paths : o[p] = "unreadable" => ~Readable(fs, p)
                   /\ lastScan'.result.errors
                         = Cardinality({p \in Paths :
                                          o[p] \in {"unreadable", "store_error"}})
                   /\ \A p \in Paths :
                         o[p] = "scanned" => p \in DOMAIN db'.committed.log_files
                   /\ ~db'.inTxn /\ db'.committed = db'.working]_vars

\* C12 witness: a scan returned Ok with the first log file of a directory
\* unreadable and the next one scanned, its login committed.
C12_Witness ==
    /\ lastScan.ok /\ lastScan.n >= 1
    /\ lastScan.outcome[<<"A", 1>>] = "unreadable"
    /\ lastScan.outcome[<<"A", 2>>] = "scanned"
    /\ lastScan.result.errors = 1
    /\ \E c \in DOMAIN db.committed.chars : db.committed.chars[c].logins > 0

\* C13: a scan reports the counts of files scanned, skipped and errored to
\* its caller on every outcome, a scan that fails partway through included:
\* every scan call that has returned has handed a ScanResult to its caller.
C13_CountsOnEveryOutcome ==
    lastScan.kind # "none" => lastScan.result # NULL

\* The logins of character c in store s (0 if s has no row for c).
LoginsOf(s, c) == IF c \in DOMAIN s.chars THEN s.chars[c].logins ELSE 0

\* The files the last scan call has dealt with for character c with the
\* outcome o.
FilesOf(scan, c, o) ==
    {p \in Paths : scan.outcome[p] = o /\ scan.owner[p] = c}

\* C14: each successfully scanned file increases its character's logins by
\* exactly one, whether the file contains zero, one or several login or
\* reconnect lines: a scan that returns Ok has added to each character's
\* logins the number of files it scanned for that character (and nothing
\* else, unless a file of the character was counted as errored after its
\* login had been written).
C14_OneLoginPerScannedFile ==
    [][(ScanReturns /\ lastScan'.ok)
       => \A c \in Chars :
            LET added == LoginsOf(db'.committed, c) - LoginsOf(db.committed, c)
                scanned == Cardinality(FilesOf(lastScan', c, "scanned"))
                errored == Cardinality(FilesOf(lastScan', c, "store_error"))
            IN /\ added >= scanned
               /\ added <= scanned + errored]_vars

\* C14 witness: one scan has scanned for the same character a file with two
\* welcome lines and a file with none, and the character has two logins.
C14_Witness ==
    /\ lastScan.n = 1 /\ lastScan.ok
    /\ \E p, q \in Paths :
          /\ fs[p] = "z" /\ fs[q] = "y"
          /\ lastScan.outcome[p] = "scanned" /\ lastScan.outcome[q] = "scanned"
          /\ lastScan.owner[p] = lastScan.owner[q]
          /\ LoginsOf(db.committed, lastScan.owner[p]) = 2

\* C15: during a scan the progress callback is invoked exactly once per
\* discovered file with (current index, total, filename), and the invocation
\* for a file comes after that file has been processed.  Stated for the
\* scans with a callback that return Ok.
C15_CallbackAfterEachFile ==
    (lastScan.kind \in {"folder_with_progress", "files_with_progress",
                        "recursive_with_progress"} /\ lastScan.ok)
    => LET found == Discovered(lastScan.kind)
           calls == lastScan.calls
       IN /\ Len(calls) = Cardinality(found)
          /\ \A p \in found :
                Cardinality({i \in 1..Len(calls) : calls[i].path = p}) = 1
          /\ \A i \in 1..Len(calls) :
                /\ calls[i].current = i
                /\ calls[i].total = Cardinality(found)
                /\ calls[i].filename = calls[i].path[2]
                /\ calls[i].done

\* C16: for each file the steps happen in the order read, hash, duplicate
\* check, decode, classify, apply events, ledger record.  A ledger entry is
\* written for a file only after all of that file's events have been applied
\* (a file whose events were applied in part has none), it records the hash
\* of the bytes read, and a file skipped as a duplicate has no events
\* applied: a scan that only skips or fails to read leaves every counter as
\* it was, and a scan that scans one file changes the counters by exactly
\* that file's events.
C16_LedgerAfterEvents ==
    [][ScanReturns
       => LET o == lastScan'.outcome
              new == DOMAIN db'.working.log_files \ DOMAIN db.working.log_files
              scanned == {p \in Paths : o[p] = "scanned"}
              partial == {p \in Paths : o[p] = "store_error"}
          IN /\ \A p \in new :
                   /\ o[p] = "scanned"
                   /\ db'.working.log_files[p].content_hash = hash_bytes(fs[p])
                   /\ db'.working.log_files[p].character_id = lastScan'.owner[p]
             /\ \A p \in Paths :
                   o[p] \in {"skipped_path", "skipped_hash"}
                     => (p \notin new /\ lastScan'.owner[p] = NULL)
             /\ (scanned = {} /\ partial = {})
                   => SameCounters(db.working, db'.working)
             /\ (lastScan'.ok /\ partial = {} /\ Cardinality(scanned) = 1)
                   => LET p == CHOOSE q \in scanned : TRUE
                          c == lastScan'.owner[p]
                      IN /\ p \in DOMAIN db'.working.log_files
                         /\ SameCounters(
                              scan_bytes(get_or_create_character(db.working, c),
                                         fs[p], c, p, FALSE, 0).store,
                              db'.working)]_vars

\* C16 witness: the first scan has scanned a file, which is in the ledger
\* with its kill applied, and has skipped a copy of it as a duplicate.
C16_Witness ==
    /\ lastScan.n = 1 /\ lastScan.ok
    /\ \E p, q \in Paths :
          /\ lastScan.outcome[p] = "scanned"
          /\ lastScan.outcome[q] = "skipped_hash"
          /\ p \in DOMAIN db.committed.log_files
          /\ q \notin DOMAIN db.committed.log_files
          /\ <<lastScan.owner[p], "Rat">> \in DOMAIN db.committed.kills

\* The counters of a Kill row.
KillCounters ==
    {"killed_count", "slaughtered_count", "assisted_kill_count", "killed_by_count"}

\* Every Kill row of s0 is a row of s1, no counter of it lower.
KillsNotLower(s0, s1) ==
    \A k \in DOMAIN s0.kills :
        /\ k \in DOMAIN s1.kills
        /\ \A f \in KillCounters : s1.kills[k][f] >= s0.kills[k][f]

\* C17: every counter of every Kill row is monotonically non-decreasing over
\* any sequence of scans (forced or not), merges and unmerges: no call
\* removes a Kill row or lowers one of its counters, in the committed
\* database or in what the connection reads.
C17_KillCountersMonotone ==
    [][/\ KillsNotLower(db.committed, db'.committed)
       /\ KillsNotLower(db.working, db'.working)]_vars

\* C17 witness: a forced scan that followed a merge has raised a kill counter
\* of a merged character to two.
C17_Witness ==
    /\ lastScan.kind = "folder" /\ lastScan.ok /\ lastScan.force
    /\ \E k \in DOMAIN db.committed.kills :
          /\ db.committed.kills[k].killed_count >= 2
          /\ db.committed.chars[k[1]].merged_into # NULL

\* C18: after finalize-characters runs, a character for which no direct
\* profession announcement has been recorded has the profession that
\* trainer-rank resolution yields for its current trainer ranks, and a
\* character with a recorded announcement keeps the announced profession.
C18_FinalizedProfession ==
    [][last'.op = "finalize"
       => \A c \in DOMAIN db'.working.chars :
            IF c \in last'.announced
            THEN db'.working.chars[c].profession = db.working.chars[c].profession
            ELSE db'.working.chars[c].profession
                   = determine_profession(db'.working, c)]_vars

\* ================================================ line classifier: claims
\* The announcement rules of classify_line, in their order.
AnnouncementOf(m) ==
    IF KARMA_RECEIVED(m) # NoMatch THEN "KarmaReceived"
    ELSE IF APPLY_LEARNING_CONFIRM(m) # NoMatch \/ APPLY_LEARNING_PARTIAL(m) # NoMatch
    THEN "ApplyLearningRank"
    ELSE IF PROFESSION_CIRCLE_TEST(m) # NoMatch \/ PROFESSION_BECOME(m) # NoMatch
    THEN "ProfessionAnnouncement"
    ELSE IF UNTRAINED(m) THEN "Untrained"
    ELSE "none"

\* C19: a message that matches the full ("much more") apply-learning pattern
\* is classified as a full apply-learning bonus, never a partial one, and a
\* message that matches the karma, an apply-learning, a profession or the
\* untrained pattern is classified as that announcement, whether or not it
\* reads as speech or as an emote.
C19_FirstMatchingRule ==
    last.op = "classify" =>
        LET m == last.line
            e == last.event
        IN  /\ (APPLY_LEARNING_CONFIRM(m) # NoMatch /\ KARMA_RECEIVED(m) = NoMatch)
                 => (e.type = "ApplyLearningRank" /\ e.is_full)
            /\ AnnouncementOf(m) # "none" => e.type = AnnouncementOf(m)

\* A "much more" line, which also matches the partial pattern and the speech
\* pattern, has been classified.
C19_Witness ==
    /\ last.op = "classify"
    /\ APPLY_LEARNING_CONFIRM(last.line) # NoMatch
    /\ APPLY_LEARNING_PARTIAL(last.line) # NoMatch
    /\ SPEECH(last.line)
    /\ last.event.type = "ApplyLearningRank"

\* ------------------------------------------------------ kill rows: claims
\* The counter f of the kill row of character c and creature r, 0 when the
\* row does not exist.
KillCount(d, c, r, f) ==
    IF <<c, r>> \in DOMAIN d.working.kills THEN d.working.kills[<<c, r>>][f]
    ELSE 0

KillRowSame(c, r) ==
    /\ (<<c, r>> \in DOMAIN db'.working.kills) = (<<c, r>> \in DOMAIN db.working.kills)
    /\ <<c, r>> \in DOMAIN db.working.kills
         => db'.working.kills[<<c, r>>] = db.working.kills[<<c, r>>]

\* C20: "You slaughtered a Ramandu." adds one to slaughtered_count of the
\* character's kill row "Ramandu" and leaves its row "the Ramandu" as it was;
\* "You killed the Ramandu." adds one to killed_count of the character's row
\* "the Ramandu" and leaves its row "Ramandu" as it was.
C20_ArticleStripping ==
    [][last'.op = "scan_line" =>
         LET c == last'.char IN
         /\ last'.line = "You slaughtered a Ramandu." =>
              /\ <<c, "Ramandu">> \in DOMAIN db'.working.kills
              /\ KillCount(db', c, "Ramandu", "slaughtered_count")
                   = KillCount(db, c, "Ramandu", "slaughtered_count") + 1
              /\ KillRowSame(c, "the Ramandu")
         /\ last'.line = "You killed the Ramandu." =>
              /\ <<c, "the Ramandu">> \in DOMAIN db'.working.kills
              /\ KillCount(db', c, "the Ramandu", "killed_count")
                   = KillCount(db, c, "the Ramandu", "killed_count") + 1
              /\ KillRowSame(c, "Ramandu")]_vars

\* Both messages have been scanned for one character, which has the two rows.
C20_Witness ==
    /\ last.op = "scan_line"
    /\ \E c \in DOMAIN db.working.chars :
         /\ KillCount(db, c, "Ramandu", "slaughtered_count") = 1
         /\ KillCount(db, c, "Ramandu", "killed_count") = 0
         /\ KillCount(db, c, "the Ramandu", "killed_count") = 1
         /\ KillCount(db, c, "the Ramandu", "slaughtered_count") = 0

\* ======================================================= encoding: claims
\* C21: when the bytes are not valid UTF-8 as a whole, the decoded text has
\* one line for each line of the bytes, and the line of every byte line that
\* is valid UTF-8 by itself is that line's own UTF-8 text.
C21_ValidLinesKeepTheirText ==
    (last.op = "decode" /\ ~utf8_ok(last.bytes)) =>
        LET lines == SplitOn(last.bytes, LF)
            out == SplitOn(last.text, LF)
        IN  /\ Len(out) = Len(lines)
            /\ \A i \in 1..Len(lines) :
                 utf8_ok(lines[i]) => out[i] = utf8_text(lines[i])

\* ================================================ get_highest_kill: claims
\* The character's kill rows of positive creature value.
ValuedKills(c) ==
    {k \in DOMAIN Rows.kills : k[1] = c /\ Rows.kills[k].creature_value > 0}

SoloScore(k) ==
    (Rows.kills[k].killed_count + Rows.kills[k].slaughtered_count)
      * Rows.kills[k].creature_value

\* C22: the highest-value-kill query returns a creature of the character's
\* kills of positive value whose solo kills times value is the largest, with
\* that product, and nothing when the character has no such kill.
C22_HighestKillByScore ==
    last.op = "get_highest_kill" =>
        IF ValuedKills(last.char) = {} THEN last.result = NULL
        ELSE \E k \in ValuedKills(last.char) :
                /\ last.result = <<k[2], SoloScore(k)>>
                /\ \A j \in ValuedKills(last.char) : SoloScore(j) <= SoloScore(k)

\* The query returned a creature that is not the one of the highest value.
C22_Witness ==
    /\ last.op = "get_highest_kill"
    /\ last.result # NULL
    /\ \E j \in ValuedKills(last.char) :
         /\ Rows.kills[j].creature_value
              > Rows.kills[<<last.char, last.result[1]>>].creature_value
         /\ SoloScore(j) > 0
         /\ SoloScore(j) < last.result[2]

\* ========================================================== gui: claims
\* C23: no Database is held by two call sites at once, and a command that
\* needs the database while a scan command is running finds none open and
\* fails.
C23_NoCommandDuringScan ==
    /\ \A t \in app.tasks : t.handle # app.db
    /\ \A t, u \in app.tasks : t.handle = u.handle => t = u
    /\ (last.op \in DbCommands /\ last.running # {}) =>
           (~last.ok /\ last.err = "No database open")

\* C29: when a scan or rescan command that took the Database has finished,
\* with Ok or with an error, state.db holds a Database.
C29_HandleBackAfterScan ==
    (last.op \in ScanCommands /\ last.handle # None) => app.db # None

\* ==================================================== aggregates: claims
\* C24: right after finalize_characters or set_modified_ranks, the stored
\* coin level of every character that is not merged and has merge sources is
\* the rank sum over the trainer rows of that character and of its sources.
C24_CoinLevelCoversSources ==
    last.op \in {"finalize", "set_modified_ranks"} =>
        \A c \in DOMAIN Rows.chars :
            (Rows.chars[c].merged_into = NULL /\ SourcesOf(c) # {}) =>
                Rows.chars[c].coin_level = RanksOf({c} \cup SourcesOf(c))

\* ======================================================== departs: claims
\* C25: the departs of a character is the count of the last departed-N-times
\* event applied for it (0 if there was none) plus the number of first-depart
\* events applied after that event.
C25_DepartsLastAbsolutePlusFirsts ==
    last.op = "depart" =>
        \A c \in DOMAIN Rows.chars :
            Rows.chars[c].departs
              = DepartHistory[c].abs + DepartHistory[c].firsts

\* A departed-3-times event has replaced a departs of another value, and a
\* first-depart event came after it.
C25_Witness ==
    /\ last.op = "depart"
    /\ last.event.type = "FirstDepart"
    /\ DepartHistory[last.char].abs = 3
    /\ DepartHistory[last.char].found = 1
    /\ Rows.chars[last.char].departs = 4

\* ================================================= errored files: claims
\* The scan call of kind kind on the connection d and the files f, with the
\* fault fault.
ScanCall(kind, d, f, force, index_lines, fault) ==
    CASE kind = "folder" -> scan_folder(d, f, force, fault)
      [] kind = "folder_with_progress" ->
           scan_folder_with_progress(d, f, force, index_lines, fault)
      [] kind = "files_with_progress" ->
           scan_files_with_progress(d, f, SortedPaths, force, index_lines, fault)
      [] kind = "recursive_with_progress" ->
           scan_recursive_with_progress(d, f, force, index_lines, fault)

\* C26: when a scan returns Ok with a file counted as errored because
\* scan_bytes failed on it, the committed store is the one the same scan
\* leaves when scan_bytes fails on that file before its first statement:
\* nothing of the file is persisted.
C26_ErroredFileLeavesNoTrace ==
    [][(lastScan'.n = lastScan.n + 1 /\ lastScan'.ok) =>
         \A p \in Paths :
            lastScan'.outcome[p] = "store_error" =>
               \E index_lines \in BOOLEAN :
                  db'.committed
                    = ScanCall(lastScan'.kind, db, fs, lastScan'.force, index_lines,
                               [at |-> "scan_bytes", file |-> p, k |-> 1]).db.committed]_vars

\* C27: when a scan call returns, with Ok or with Err, no transaction is
\* left open on the store handle: a call made on a handle with no open
\* transaction, and left by a return (not by a panic of the callback), leaves
\* the handle with no open transaction, so that the next BEGIN succeeds.
C27_NoTransactionLeftOpen ==
    [][(ScanReturns /\ ~db.inTxn /\ lastScan'.fired # "progress")
         => (~db'.inTxn /\ CanBegin(db'))]_vars

\* C28: after a forced rescan of a file whose content has changed since it
\* was first entered in the ledger, the ledger entry of that path holds the
\* hash of the file's current content (so that a later copy of the new
\* content at another path is found by is_hash_scanned).
C28_ForcedRescanRefreshesHash ==
    [][(ScanReturns /\ lastScan'.ok /\ lastScan'.force)
         => \A p \in Paths :
               (/\ lastScan'.outcome[p] = "scanned"
                /\ p \in DOMAIN db.committed.log_files
                /\ db.committed.log_files[p].content_hash # hash_bytes(fs[p]))
                 => /\ p \in DOMAIN db'.committed.log_files
                    /\ db'.committed.log_files[p].content_hash = hash_bytes(fs[p])
                    /\ is_hash_scanned(db'.committed, hash_bytes(fs[p]))]_vars

\* The discovered files a returned scan has put in one of the classes.
CountedAs(scan, found, classes) ==
    Cardinality({p \in found : scan.outcome[p] \in classes})

\* C30: when a scan returns Ok, files_scanned + skipped + errors equals the
\* number of log files discovered, each discovered file being counted in
\* exactly one of the three: every discovered file has been dealt with as
\* scanned, skipped or errored, no other path has, and each counter is the
\* number of discovered files of its class.
C30_CountsCoverDiscoveredFiles ==
    [][(ScanReturns /\ lastScan'.ok)
         => LET scan == lastScan'
                found == Discovered(scan.kind)
            IN /\ \A p \in Paths : (scan.outcome[p] # "none") <=> (p \in found)
               /\ scan.result.files_scanned = CountedAs(scan, found, {"scanned"})
               /\ scan.result.skipped
                    = CountedAs(scan, found, {"skipped_path", "skipped_hash"})
               /\ scan.result.errors
                    = CountedAs(scan, found, {"unreadable", "store_error"})
               /\ scan.result.files_scanned + scan.result.skipped
                    + scan.result.errors = Cardinality(found)]_vars

\* C30 witness: a scan of three discovered files returned Ok with one file
\* scanned, one skipped and one errored.
C30_Witness ==
    /\ lastScan.ok /\ lastScan.n >= 1 /\ lastScan.fsSame
    /\ Cardinality(Discovered(lastScan.kind)) = 3
    /\ lastScan.result.files_scanned = 1
    /\ lastScan.result.skipped = 1
    /\ lastScan.result.errors = 1

====
